---- MODULE Spec2Model ----
(***************************************************************************)
(* Model of the chat endpoint app.post('/api/chat') (server, streaming and *)
(* non-streaming paths) and of the tool registry of tools.js.              *)
(*                                                                         *)
(* Text is a sequence of characters; a tool-invocation argument buffer is  *)
(* a sequence of JSON lexical tokens, so that String += fragment is \o and *)
(* JSON.parse is a real recogniser (JSONParse) that can fail.              *)
(*                                                                         *)
(* The Chat Completion Collaborator is the environment.  Its streams obey  *)
(* the provider's event flow: content blocks are opened, receive deltas of *)
(* their own kind and are closed one after the other, never nested, and    *)
(* message_stop is the last event of a stream.  A stream may break off at  *)
(* any point, either by ending or by throwing.                             *)
(*                                                                         *)
(* Further specifications: SpecDisconnect (the client may disconnect),     *)
(* SpecPair (two requests in flight), SpecLive (streaming requests under   *)
(* fairness of the handler's continuations), SpecTools (executeTool called *)
(* directly, with numbers in the calculator's values), SpecClient (the     *)
(* browser client of public/app.js and its conversation history),          *)
(* SpecReader (the client reading a response body chunk by chunk),         *)
(* SpecBatch (batchProcessDocuments, under fairness of its continuations)  *)
(* and SpecValidate (the handler from its entry, with any request body).   *)
(***************************************************************************)
EXTENDS Integers, Sequences, FiniteSets, TLC

\* ------------------------------------------------------------------ bounds
\* events the collaborator delivers during one request, over both streams
MaxEvents == 7
\* content blocks of a non-streaming response
MaxBlocks == 2
\* events the collaborator delivers to two concurrent requests together
MaxPairEvents == 5
\* operations of the RAG module a script calls
MaxOps == 2
\* calls of executeTool made one after the other on the loaded tools module
MaxCalls == 2
\* events of the two streams of a request whose termination is checked
MaxLiveEvents == 5
\* messages a user sends from one page of the browser client
MaxSends == 2
\* documents handed to batchProcessDocuments, and the largest batchSize
MaxDocs == 3
MaxBatchSize == 2

VARIABLES
  stream,            \* req.body.stream
  messages,          \* req.body.messages
  pc,                \* position of the request handler
  fullContent,       \* let fullContent = []
  toolUseBlocks,     \* let toolUseBlocks = []
  currentToolUse,    \* let currentToolUse = null   (<<>> is null)
  currentTextBlock,  \* let currentTextBlock = ''
  toolResults,       \* const toolResults = []
  toolIdx,           \* position of the for (const toolUse of toolUseBlocks) loop
  written,           \* res.write calls, in order
  ended,             \* number of res.end() calls
  replied,           \* res.status(..).json(..) / res.json(..) calls, in order
  requests,          \* anthropic.messages.create calls, in order
  executed,          \* executeTool calls, in order (id: the invocation it ran for)
  received,          \* events the first-pass stream has yielded
  received2,         \* events the follow-up stream has yielded
  phase1,            \* collaborator: block state of the first-pass stream
  phase2,            \* collaborator: block state of the follow-up stream
  nextId,            \* collaborator: next tool_use id
  response,          \* non-streaming: response, then finalResponse, as they arrive
  apiKey,            \* process.env.ANTHROPIC_API_KEY is set
  connected,         \* the client's connection is still open
  parked,            \* the handler invocation that waits at an await while this
                     \* one runs (<<>>: there is none)
  openaiClient,      \* let openaiClient   (FALSE is undefined)
  pineconeClient,    \* let pineconeClient (FALSE is undefined)
  ragLog,            \* the calls of RAG operations so far: the operation, the
                     \* requests it sent to its service, and how it ended
  staffDirectory,    \* let staffDirectory (tools.js)
  toolTable,         \* const tools = [ .. ] (tools.js): the names it holds
  toolLog,           \* the direct calls of executeTool so far: the name, the
                     \* input, and what the call returned or threw
  conversationHistory, \* browser client: const conversationHistory = [ .. ]
  streamingEnabled,  \* browser client: let streamingEnabled = true
  sending,           \* browser client: the send function that waits for its
                     \* response ("idle": none)
  fetched,           \* browser client: the bodies of its fetch('/api/chat')
                     \* calls, in order
  batch,             \* batchProcessDocuments: its arguments, its locals, its
                     \* position, and the requests it has made so far
  page,              \* browser client: sendButton.disabled, userInput.disabled,
                     \* the text of the assistant message element of the last
                     \* streaming send, the data lines that send has read, and
                     \* the number of send functions that have not returned
  reader,            \* browser client: the response body that is being read
                     \* chunk by chunk, and the locals of the reading loop
  body               \* req.body as the JSON middleware left it: the values of
                     \* its messages and stream properties, with their types

vars == <<stream, messages, pc, fullContent, toolUseBlocks, currentToolUse,
          currentTextBlock, toolResults, toolIdx, written, ended, replied,
          requests, executed, received, received2, phase1, phase2, nextId,
          response, apiKey, connected, parked, openaiClient, pineconeClient,
          ragLog, staffDirectory, toolTable, toolLog, conversationHistory,
          streamingEnabled, sending, fetched, batch, page, reader,
          body>>

\* ------------------------------------------------------------ JSON values
\* JavaScript undefined, as the value of a property that is absent
Undefined == "undefined"

\* lexical tokens of the argument JSON the collaborator streams
LBrace == "{"
RBrace == "}"
Comma == ","
NullTok == "null"
QtAll == "\"query_type\":\"all\""
QtByName == "\"query_type\":\"by_name\""
TermX == "\"search_term\":\"x\""
OpBogus == "\"operation\":\"bogus\""
OpBasic == "\"operation\":\"basic_math\""
OpPct == "\"operation\":\"percentage\""
ValsBadOp == "\"values\":{\"numbers\":[1,2],\"operator\":\"^\"}"
ValsPlus == "\"values\":{\"numbers\":[1,2],\"operator\":\"+\"}"
ValsPct == "\"values\":{\"amount\":50000,\"percentage\":15}"
QueryRag == "\"query\":\"What is machine learning?\""
IndexKb == "\"index_name\":\"my-knowledge-base\""

Members == {QtAll, QtByName, TermX, OpBogus, OpBasic, OpPct,
            ValsBadOp, ValsPlus, ValsPct, QueryRag, IndexKb}

MemberKey(t) ==
  CASE t \in {QtAll, QtByName} -> "query_type"
    [] t = TermX -> "search_term"
    [] t \in {OpBogus, OpBasic, OpPct} -> "operation"
    [] t = QueryRag -> "query"
    [] t = IndexKb -> "index_name"
    [] OTHER -> "values"

MemberVal(t) ==
  CASE t = QtAll -> "all"
    [] t = QtByName -> "by_name"
    [] t = TermX -> "x"
    [] t = OpBogus -> "bogus"
    [] t = OpBasic -> "basic_math"
    [] t = OpPct -> "percentage"
    [] t = ValsBadOp -> "{numbers:[1,2],operator:^}"
    [] t = ValsPlus -> "{numbers:[1,2],operator:+}"
    [] t = QueryRag -> "What is machine learning?"
    [] t = IndexKb -> "my-knowledge-base"
    [] OTHER -> "{amount:50000,percentage:15}"

\* a parsed JSON value: null, or an object given as its set of <<key, value>>
JNull == [t |-> "null", o |-> {}]
JObject(pairs) == [t |-> "object", o |-> pairs]

\* input.key of a parsed object
Get(input, k) ==
  IF \E p \in input.o : p[1] = k
  THEN (CHOOSE p \in input.o : p[1] = k)[2]
  ELSE Undefined

\* the text between the braces is member (, member)*
IsMemberList(s) ==
  /\ Len(s) % 2 = 1
  /\ \A i \in 1..Len(s) :
       IF i % 2 = 1 THEN s[i] \in Members ELSE s[i] = Comma

\* mutant: an empty buffer is read as the empty object
JSONParseEmptyIsObject(buf) ==
  LET n == Len(buf)
      inner == SubSeq(buf, 2, n - 1)
      \* a repeated key keeps its last value
      last(k) == CHOOSE i \in 1..Len(inner) :
                   /\ inner[i] \in Members /\ MemberKey(inner[i]) = k
                   /\ \A j \in (i+1)..Len(inner) :
                        inner[j] \in Members => MemberKey(inner[j]) # k
      keys == {MemberKey(inner[i]) : i \in {j \in 1..Len(inner) : inner[j] \in Members}}
  IN  IF buf = <<>> THEN [ok |-> TRUE, value |-> JObject({})]
      ELSE IF buf = <<NullTok>> THEN [ok |-> TRUE, value |-> JNull]
      ELSE IF n >= 2 /\ buf[1] = LBrace /\ buf[n] = RBrace
              /\ (inner = <<>> \/ IsMemberList(inner))
      THEN [ok |-> TRUE,
            value |-> JObject({<<k, MemberVal(inner[last(k)])>> : k \in keys})]
      ELSE [ok |-> FALSE, value |-> JNull]

\* JSON.parse(text): ok = FALSE stands for the SyntaxError it throws
JSONParse(buf) ==
  LET n == Len(buf)
      inner == SubSeq(buf, 2, n - 1)
      \* a repeated key keeps its last value
      last(k) == CHOOSE i \in 1..Len(inner) :
                   /\ inner[i] \in Members /\ MemberKey(inner[i]) = k
                   /\ \A j \in (i+1)..Len(inner) :
                        inner[j] \in Members => MemberKey(inner[j]) # k
      keys == {MemberKey(inner[i]) : i \in {j \in 1..Len(inner) : inner[j] \in Members}}
  IN  IF buf = <<NullTok>> THEN [ok |-> TRUE, value |-> JNull]
      ELSE IF n >= 2 /\ buf[1] = LBrace /\ buf[n] = RBrace
              /\ (inner = <<>> \/ IsMemberList(inner))
      THEN [ok |-> TRUE,
            value |-> JObject({<<k, MemberVal(inner[last(k)])>> : k \in keys})]
      ELSE [ok |-> FALSE, value |-> JNull]

\* ---------------------------------------------------------- tool registry
\* what a call returns: threw = TRUE carries error.message in content
Returned(c) == [threw |-> FALSE, content |-> c]
Threw(msg) == [threw |-> TRUE, content |-> msg]

\* the values objects the model distinguishes
VBadOp == MemberVal(ValsBadOp)
VPlus == MemberVal(ValsPlus)
VPct == MemberVal(ValsPct)

\* staff-directory.json as loaded at start-up, and the fallback of the catch
\* block; names, departments and roles are one lower-case letter each
LoadedDirectory ==
  [staff |-> <<[name |-> "x", department |-> "y", role |-> "z"],
               [name |-> "w", department |-> "y", role |-> "x"]>>]
FallbackDirectory == [staff |-> <<>>]

\* JSON.stringify of a list of persons
RECURSIVE StringifyStaff(_)
StringifyStaff(staff) ==
  IF staff = <<>> THEN ""
  ELSE "{" \o staff[1].name \o "," \o staff[1].department \o ","
           \o staff[1].role \o "}" \o StringifyStaff(Tail(staff))

Stringify(directory) == "{staff:[" \o StringifyStaff(directory.staff) \o "]}"

\* field.toLowerCase().includes(search_term.toLowerCase()), for a field of one
\* lower-case letter and a search term that is not empty
Includes(field, search_term) == field = search_term

\* function lookupStaffDirectory(input)
lookupStaffDirectory(input) ==
  LET query_type == Get(input, "query_type")
      search_term == Get(input, "search_term")
      by(field) == [staff |-> SelectSeq(staffDirectory.staff,
                                LAMBDA person : Includes(person[field], search_term))]
  IN  IF input.t = "null"
      THEN Threw("Cannot destructure property 'query_type' of 'input' as it is null.")
      ELSE CASE query_type = "all" -> Returned(Stringify(staffDirectory))
             [] query_type = "by_name" ->
                  IF search_term = Undefined
                  THEN Returned("Error: search_term is required for name lookup")
                  ELSE Returned(Stringify(by("name")))
             [] query_type = "by_department" ->
                  IF search_term = Undefined
                  THEN Returned("Error: search_term is required for department lookup")
                  ELSE Returned(Stringify(by("department")))
             [] query_type = "by_role" ->
                  IF search_term = Undefined
                  THEN Returned("Error: search_term is required for role lookup")
                  ELSE Returned(Stringify(by("role")))
             [] OTHER -> Returned("Error: Invalid query_type. Use \"all\", \"by_name\", \"by_department\", or \"by_role\"")

\* the catch block of companyCalculator: the failure is returned as text
CalcError(msg, operation) ==
  Returned("{error:Calculation error: " \o msg \o ",operation:" \o operation \o "}")

CalcResult(operation, result) ==
  Returned("{calculation_type:" \o operation \o ",result:" \o result \o "}")

\* The numbers of a values object.  An amount, a total, a part and a result
\* count hundredths (5000000 is 50000.00), a percentage that is supplied is a
\* whole number; a values object is its set of <<key, number>>.  Doubles are
\* taken as exact: the rounding error of the floating-point product is left
\* out.
Hundred == 100

\* values.key is present / its number
Has(values, key) == \E p \in values : p[1] = key
Num(values, key) == (CHOOSE p \in values : p[1] = key)[2]

\* values.key used as a condition: undefined and 0 are falsy
Truthy(values, key) == Has(values, key) /\ Num(values, key) # 0

\* Math.round(n / d) for d > 0: the nearest integer, a half goes up
MathRound(n, d) == (2 * n + d) \div (2 * d)

\* case 'percentage' of companyCalculator: the result object, without its
\* description; the percentage it computes from part and total counts
\* hundredths
percentage(values) ==
  IF Truthy(values, "total") /\ Truthy(values, "part")
  THEN {<<"part", Num(values, "part")>>, <<"total", Num(values, "total")>>,
        <<"percentage",
          MathRound(Num(values, "part") * Hundred * Hundred, Num(values, "total"))>>}
  ELSE IF Truthy(values, "amount") /\ Truthy(values, "percentage")
  THEN {<<"amount", Num(values, "amount")>>,
        <<"percentage", Num(values, "percentage")>>,
        <<"result",
          MathRound(Num(values, "amount") * Num(values, "percentage"), Hundred)>>}
  ELSE {}

\* the numbers of the values object {"amount":50000,"percentage":15}
PctNumbers == {<<"amount", 50000 * Hundred>>, <<"percentage", 15>>}

\* a count of hundredths as JSON.stringify writes the number
Decimal(n) ==
  IF n % Hundred = 0 THEN ToString(n \div Hundred)
  ELSE ToString(n \div Hundred) \o "."
         \o (IF n % Hundred < 10 THEN "0" ELSE "") \o ToString(n % Hundred)

\* function companyCalculator(input); the timestamp field is left out
companyCalculator(input) ==
  LET operation == Get(input, "operation")
      values == Get(input, "values")
      undef == "Cannot read properties of undefined"
  IN  IF input.t = "null"
      THEN Threw("Cannot destructure property 'operation' of 'input' as it is null.")
      ELSE CASE operation = "basic_math" ->
                  IF values = Undefined THEN CalcError(undef, operation)
                  ELSE IF values = VPlus THEN CalcResult(operation, "{result:3}")
                  ELSE IF values = VBadOp THEN CalcError("Invalid operator", operation)
                  ELSE CalcResult(operation, "{}")
             [] operation = "percentage" ->
                  IF values = Undefined THEN CalcError(undef, operation)
                  ELSE IF values = VPct
                  THEN CalcResult(operation,
                         "{result:" \o Decimal(Num(percentage(PctNumbers), "result")) \o "}")
                  ELSE CalcResult(operation, "{}")
             [] operation \in {"budget_analysis", "roi_calculation", "salary_calculation",
                               "compound_interest", "break_even"} ->
                  IF values = Undefined THEN CalcError(undef, operation)
                  ELSE CalcResult(operation, "{...}")
             [] OTHER -> CalcError("Unknown operation: " \o operation, operation)

\* const tools = [ { name: .. }, { name: .. } ]: the names advertised to the
\* collaborator
tools == {"lookup_staff_directory", "company_calculator"}

\* mutant: the switch has no default branch, an unknown name returns undefined
executeToolNoDefault(toolName, input) ==
  CASE toolName = "lookup_staff_directory" -> lookupStaffDirectory(input)
    [] toolName = "company_calculator" -> companyCalculator(input)
    [] OTHER -> Returned(Undefined)

\* function executeTool(toolName, input)
executeTool(toolName, input) ==
  CASE toolName = "lookup_staff_directory" -> lookupStaffDirectory(input)
    [] toolName = "company_calculator" -> companyCalculator(input)
    [] OTHER -> Threw("Unknown tool: " \o toolName)

\* the tool_result block pushed for one invocation (try / catch of the loop);
\* is_error = FALSE stands for a block without the is_error property
ToolResult(toolUse) ==
  LET r == executeTool(toolUse.name, toolUse.input)
  IN  IF r.threw
      THEN [type |-> "tool_result", tool_use_id |-> toolUse.id,
            content |-> "Error executing tool: " \o r.content, is_error |-> TRUE]
      ELSE [type |-> "tool_result", tool_use_id |-> toolUse.id,
            content |-> r.content, is_error |-> FALSE]

\* ------------------------------------------------- collaborator (streams)
\* the names a tool_use block may carry; get_weather is not registered,
\* query_rag_system is the retrieval tool of the README
ToolNames == {"lookup_staff_directory", "company_calculator", "get_weather",
              "query_rag_system"}
\* the names the model lets a streamed tool_use block carry
StreamedToolNames == {"lookup_staff_directory", "get_weather"}

\* text fragments and partial_json fragments the collaborator sends
TextFragments == {<<"a">>, <<" ">>}
JsonFragments == {<<LBrace, QtAll, RBrace>>, <<LBrace, QtByName>>, <<RBrace>>}

BlockStartText ==
  [type |-> "content_block_start", content_block |-> [type |-> "text"]]
BlockStartTool(id, name) ==
  [type |-> "content_block_start",
   content_block |-> [type |-> "tool_use", id |-> id, name |-> name]]
TextDelta(text) ==
  [type |-> "content_block_delta", delta |-> [type |-> "text_delta", text |-> text]]
JsonDelta(partial_json) ==
  [type |-> "content_block_delta",
   delta |-> [type |-> "input_json_delta", partial_json |-> partial_json]]
BlockStop == [type |-> "content_block_stop"]
MessageStop == [type |-> "message_stop"]
Ping == [type |-> "ping"]
\* an error the provider reports inside the stream; its error object
\* { type, message } is kept as the one string of its type
StreamError == [type |-> "error", error |-> "overloaded_error"]

\* the events a stream may yield next, by the state of its current block;
\* message_stop and an in-stream error are the last event of their stream
StreamEvents(phase, id) ==
  CASE phase = "idle" ->
         {Ping, BlockStartText, MessageStop, StreamError}
           \cup {BlockStartTool(id, n) : n \in StreamedToolNames}
    [] phase = "text" ->
         {TextDelta(t) : t \in TextFragments} \cup {BlockStop, StreamError}
    [] phase = "tool" ->
         {JsonDelta(f) : f \in JsonFragments} \cup {BlockStop, StreamError}
    [] OTHER -> {}

NextPhase(phase, event) ==
  CASE event.type = "content_block_start" ->
         IF event.content_block.type = "tool_use" THEN "tool" ELSE "text"
    [] event.type = "content_block_stop" -> "idle"
    [] event.type = "message_stop" -> "stopped"
    [] event.type = "error" -> "failed"
    [] OTHER -> phase

\* -------------------------------------------------------- server helpers
\* the conversations a client sends
Conversations ==
  { <<[role |-> "user", content |-> "hi"],
      [role |-> "assistant", content |-> "hello"],
      [role |-> "user", content |-> "more"]>> }

\* res.write(`data: ${JSON.stringify(event)}\n\n`): one SSE data line per call;
\* the line of the sentinel is not JSON and carries no event
Done == [type |-> "[DONE]"]
ErrorEvent(msg) == [type |-> "error", error |-> msg]
ToolExecution(results) == [type |-> "tool_execution", tool_results |-> results]
FollowupStart == [type |-> "followup_response_start"]

\* Array.prototype.join('') of a list of strings
RECURSIVE Join(_)
Join(list) == IF list = <<>> THEN <<>> ELSE Head(list) \o Join(Tail(list))

\* String.prototype.trim
IsSpace(c) == c = " "
Trim(str) ==
  LET keep == {i \in 1..Len(str) : ~IsSpace(str[i])}
      Min(S) == CHOOSE x \in S : \A y \in S : x <= y
      Max(S) == CHOOSE x \in S : \A y \in S : x >= y
  IN  IF keep = {} THEN <<>> ELSE SubSeq(str, Min(keep), Max(keep))

\* mutant: the tool-invocation blocks are pushed last one first
AssistantContentReversed(content, blocks) ==
  LET accumulatedText == Trim(Join(content))
      textPart == IF accumulatedText # <<>>
                  THEN <<[type |-> "text", text |-> accumulatedText]>>
                  ELSE <<>>
      toolPart == [i \in 1..Len(blocks) |->
                     [type |-> "tool_use", id |-> blocks[Len(blocks) + 1 - i].id,
                      name |-> blocks[Len(blocks) + 1 - i].name,
                      input |-> blocks[Len(blocks) + 1 - i].input]]
  IN  textPart \o toolPart

\* const assistantContent = [] ... the placeholder push included
AssistantContent(content, blocks) ==
  LET accumulatedText == Trim(Join(content))
      textPart == IF accumulatedText # <<>>
                  THEN <<[type |-> "text", text |-> accumulatedText]>>
                  ELSE <<>>
      toolPart == [i \in 1..Len(blocks) |->
                     [type |-> "tool_use", id |-> blocks[i].id,
                      name |-> blocks[i].name, input |-> blocks[i].input]]
      both == textPart \o toolPart
  IN  IF Len(both) = 0 THEN <<[type |-> "text", text |-> <<>>]>> ELSE both

\* mutant: the tool results are appended as one user turn each
UpdatedMessagesTurnPerResult(msgs, assistantContent, results) ==
  msgs \o <<[role |-> "assistant", content |-> assistantContent]>>
       \o [i \in 1..Len(results) |-> [role |-> "user", content |-> <<results[i]>>]]

\* mutant: only the last turn of the conversation is sent along
UpdatedMessagesLastTurnOnly(msgs, assistantContent, results) ==
  SubSeq(msgs, Len(msgs), Len(msgs))
    \o <<[role |-> "assistant", content |-> assistantContent],
          [role |-> "user", content |-> results]>>

\* const updatedMessages = [...messages, {assistant}, {user}]
UpdatedMessages(msgs, assistantContent, results) ==
  msgs \o <<[role |-> "assistant", content |-> assistantContent],
            [role |-> "user", content |-> results]>>

\* batchProcessDocuments(documents, indexName, namespace, model, batchSize)
\* at the position at: let processedCount = 0, errorCount = 0, errors = [];
\* i is the index of the batch loop, cur the batch, k the next document of it;
\* embedded lists the ids generateEmbeddings was called for, saved the id
\* lists saveToPinecone was called with
BatchCall(documents, batchSize, at) ==
  [at |-> at, documents |-> documents, batchSize |-> batchSize,
   i |-> 0, cur |-> <<>>, k |-> 1, vectors |-> <<>>,
   processedCount |-> 0, errorCount |-> 0, errors |-> <<>>,
   embedded |-> <<>>, saved |-> <<>>]

\* a value of a property of req.body with its type; the body of a well-formed
\* request
JsUndefined == [t |-> "undefined"]
JsArray(list) == [t |-> "array", v |-> list]
JsBoolean(b) == [t |-> "boolean", v |-> b]
Body(msgs, strm) == [messages |-> JsArray(msgs), stream |-> JsBoolean(strm)]

\* the page of the browser client has been loaded (DOMContentLoaded)
Greeting == "Hello! I'm Claude. How can I help you today?"
PageLoaded ==
  /\ conversationHistory = <<[role |-> "assistant", content |-> Greeting]>>
  /\ streamingEnabled = TRUE
  /\ sending = "idle"
  /\ fetched = <<>>
  /\ page = [sendButtonDisabled |-> FALSE, userInputDisabled |-> FALSE,
             shown |-> "", lines |-> <<>>, inFlight |-> 0]
  /\ reader = [at |-> "none"]

\* ------------------------------------------------------- streaming path
Init ==
  /\ \/ /\ pc = "start"
        /\ stream \in BOOLEAN
        /\ apiKey \in BOOLEAN
        /\ openaiClient = FALSE
        /\ pineconeClient = FALSE
     \/ /\ pc = "script"
        /\ stream = FALSE
        /\ apiKey = FALSE
        /\ openaiClient \in BOOLEAN
        /\ pineconeClient \in BOOLEAN
  /\ messages \in Conversations
  /\ fullContent = <<>>
  /\ toolUseBlocks = <<>>
  /\ currentToolUse = <<>>
  /\ currentTextBlock = <<>>
  /\ toolResults = <<>>
  /\ toolIdx = 1
  /\ written = <<>>
  /\ ended = 0
  /\ replied = <<>>
  /\ requests = <<>>
  /\ executed = <<>>
  /\ received = <<>>
  /\ received2 = <<>>
  /\ phase1 = "idle"
  /\ phase2 = "idle"
  /\ nextId = 1
  /\ response = <<>>
  /\ connected = TRUE
  /\ body = Body(messages, stream)
  /\ parked = <<>>
  /\ ragLog = <<>>
  /\ batch = BatchCall(<<>>, 1, "none")
  /\ staffDirectory = LoadedDirectory
  /\ toolTable = tools
  /\ toolLog = <<>>
  /\ PageLoaded

\* the tools module
moduleVars == <<staffDirectory, toolTable, toolLog>>
\* the browser client
clientVars == <<conversationHistory, streamingEnabled, sending, fetched, page, reader>>
\* the RAG module
ragVars == <<openaiClient, pineconeClient, ragLog, batch>>
\* the process outside the running handler invocation
envVars == <<apiKey, parked, ragVars, moduleVars, clientVars>>
\* the request as the client sent it, and the client's connection
reqVars == <<stream, messages, connected, body>>
\* the variables of the first-pass loop
loopVars == <<fullContent, toolUseBlocks, currentToolUse, currentTextBlock>>
\* the variables of the tool execution loop
toolVars == <<toolResults, toolIdx, executed>>
\* the collaborator's own state
streamVars == <<received, received2, phase1, phase2, nextId>>

\* error.message of the check of process.env.ANTHROPIC_API_KEY
KeyNotConfigured == "ANTHROPIC_API_KEY is not configured"

\* if (stream) { res.writeHead(..); try { if (!process.env.ANTHROPIC_API_KEY)
\* throw ..; const stream = await anthropic.messages.create(..)
StartStreaming ==
  /\ pc = "start"
  /\ stream
  /\ IF apiKey
     THEN /\ requests' = Append(requests, messages)
          /\ pc' = "awaitStream"
          /\ UNCHANGED <<written, ended>>
     ELSE /\ written' = Append(written, ErrorEvent(KeyNotConfigured))
          /\ ended' = ended + 1
          /\ pc' = "errored"
          /\ UNCHANGED requests
  /\ UNCHANGED <<envVars, reqVars, loopVars, toolVars, replied, streamVars, response>>

\* the first create call resolves with a stream
StreamCreated ==
  /\ pc = "awaitStream"
  /\ pc' = "first"
  /\ UNCHANGED <<envVars, reqVars, loopVars, toolVars, written, ended, replied,
                 requests, streamVars, response>>

\* mutant: argument fragments are held back from the client
RelayWithoutArguments(out, event) ==
  IF event.type = "content_block_delta" /\ event.delta.type = "input_json_delta"
  THEN out
  ELSE Append(out, event)

\* res.write(`data: ${JSON.stringify(event)}\n\n`) of a collaborator event
Relay(out, event) == Append(out, event)

\* mutant: the fragment is put in front of the buffer
AppendJsonInFront(toolUse, partial_json) ==
  [toolUse EXCEPT !.input = partial_json \o @]

\* mutant: the fragment replaces the buffer (= for +=)
AppendJsonOverwrites(toolUse, partial_json) ==
  [toolUse EXCEPT !.input = partial_json]

\* currentToolUse.input += event.delta.partial_json
AppendJson(toolUse, partial_json) ==
  [toolUse EXCEPT !.input = @ \o partial_json]

\* mutant: the push is outside the try, so an unparsed invocation stays pending
CloseToolUseKeepsUnparsed(blocks, toolUse) ==
  LET parsed == JSONParse(toolUse.input)
  IN  Append(blocks, [toolUse EXCEPT !.input = IF parsed.ok THEN parsed.value ELSE JNull])

\* content_block_stop with a tool use active: try { JSON.parse; push } catch { log }
CloseToolUse(blocks, toolUse) ==
  LET parsed == JSONParse(toolUse.input)
  IN  IF parsed.ok
      THEN Append(blocks, [toolUse EXCEPT !.input = parsed.value])
      ELSE blocks

\* if (currentTextBlock) { fullContent.push(currentTextBlock) }
FlushText(content, text) ==
  IF text # <<>> THEN Append(content, text) ELSE content

\* mutant: message_stop never starts the tool loop
HandleEventIgnoresPending(event) ==
  /\ written' = Relay(written, event)
  /\ IF event.type = "content_block_start"
     THEN IF event.content_block.type = "tool_use"
          THEN /\ fullContent' = FlushText(fullContent, currentTextBlock)
               /\ currentTextBlock' = <<>>
               /\ currentToolUse' = <<[id |-> event.content_block.id,
                                       name |-> event.content_block.name,
                                       input |-> <<>>]>>
               /\ UNCHANGED <<toolUseBlocks, pc, toolVars>>
          ELSE /\ currentTextBlock' = <<>>
               /\ UNCHANGED <<fullContent, toolUseBlocks, currentToolUse, pc, toolVars>>
     ELSE IF event.type = "content_block_delta"
     THEN IF event.delta.type = "text_delta"
          THEN /\ currentTextBlock' = currentTextBlock \o event.delta.text
               /\ UNCHANGED <<fullContent, toolUseBlocks, currentToolUse, pc, toolVars>>
          ELSE IF event.delta.type = "input_json_delta" /\ currentToolUse # <<>>
          THEN /\ currentToolUse' =
                    <<AppendJson(currentToolUse[1], event.delta.partial_json)>>
               /\ UNCHANGED <<fullContent, toolUseBlocks, currentTextBlock, pc, toolVars>>
          ELSE UNCHANGED <<loopVars, pc, toolVars>>
     ELSE IF event.type = "content_block_stop"
     THEN IF currentToolUse # <<>>
          THEN /\ toolUseBlocks' = CloseToolUse(toolUseBlocks, currentToolUse[1])
               /\ currentToolUse' = <<>>
               /\ UNCHANGED <<fullContent, currentTextBlock, pc, toolVars>>
          ELSE IF currentTextBlock # <<>>
          THEN /\ fullContent' = Append(fullContent, currentTextBlock)
               /\ currentTextBlock' = <<>>
               /\ UNCHANGED <<toolUseBlocks, currentToolUse, pc, toolVars>>
          ELSE UNCHANGED <<loopVars, pc, toolVars>>
     ELSE IF event.type = "message_stop"
     THEN /\ fullContent' = FlushText(fullContent, currentTextBlock)
          /\ IF FALSE
             THEN /\ pc' = "exec"
                  /\ toolResults' = <<>>
                  /\ toolIdx' = 1
                  /\ UNCHANGED executed
             ELSE UNCHANGED <<pc, toolVars>>
          /\ UNCHANGED <<toolUseBlocks, currentToolUse, currentTextBlock>>
     ELSE UNCHANGED <<loopVars, pc, toolVars>>

\* the body of for await (const event of stream), up to its next await
HandleEvent(event) ==
  /\ written' = Relay(written, event)
  /\ IF event.type = "content_block_start"
     THEN IF event.content_block.type = "tool_use"
          THEN /\ fullContent' = FlushText(fullContent, currentTextBlock)
               /\ currentTextBlock' = <<>>
               /\ currentToolUse' = <<[id |-> event.content_block.id,
                                       name |-> event.content_block.name,
                                       input |-> <<>>]>>
               /\ UNCHANGED <<toolUseBlocks, pc, toolVars>>
          ELSE /\ currentTextBlock' = <<>>
               /\ UNCHANGED <<fullContent, toolUseBlocks, currentToolUse, pc, toolVars>>
     ELSE IF event.type = "content_block_delta"
     THEN IF event.delta.type = "text_delta"
          THEN /\ currentTextBlock' = currentTextBlock \o event.delta.text
               /\ UNCHANGED <<fullContent, toolUseBlocks, currentToolUse, pc, toolVars>>
          ELSE IF event.delta.type = "input_json_delta" /\ currentToolUse # <<>>
          THEN /\ currentToolUse' =
                    <<AppendJson(currentToolUse[1], event.delta.partial_json)>>
               /\ UNCHANGED <<fullContent, toolUseBlocks, currentTextBlock, pc, toolVars>>
          ELSE UNCHANGED <<loopVars, pc, toolVars>>
     ELSE IF event.type = "content_block_stop"
     THEN IF currentToolUse # <<>>
          THEN /\ toolUseBlocks' = CloseToolUse(toolUseBlocks, currentToolUse[1])
               /\ currentToolUse' = <<>>
               /\ UNCHANGED <<fullContent, currentTextBlock, pc, toolVars>>
          ELSE IF currentTextBlock # <<>>
          THEN /\ fullContent' = Append(fullContent, currentTextBlock)
               /\ currentTextBlock' = <<>>
               /\ UNCHANGED <<toolUseBlocks, currentToolUse, pc, toolVars>>
          ELSE UNCHANGED <<loopVars, pc, toolVars>>
     ELSE IF event.type = "message_stop"
     THEN /\ fullContent' = FlushText(fullContent, currentTextBlock)
          /\ IF Len(toolUseBlocks) > 0
             THEN /\ pc' = "exec"
                  /\ toolResults' = <<>>
                  /\ toolIdx' = 1
                  /\ UNCHANGED executed
             ELSE UNCHANGED <<pc, toolVars>>
          /\ UNCHANGED <<toolUseBlocks, currentToolUse, currentTextBlock>>
     ELSE UNCHANGED <<loopVars, pc, toolVars>>

\* the events delivered so far to the two requests in flight
PairEvents ==
  IF parked = <<>> THEN 0
  ELSE Len(received) + Len(received2)
         + Len(parked[1].received) + Len(parked[1].received2)

\* the first-pass stream yields its next event
FirstEvent ==
  /\ pc = "first"
  /\ Len(received) < MaxEvents
  /\ PairEvents < MaxPairEvents
  /\ \E event \in StreamEvents(phase1, nextId) :
       /\ received' = Append(received, event)
       /\ phase1' = NextPhase(phase1, event)
       /\ nextId' = IF phase1' = "tool" /\ phase1 = "idle" THEN nextId + 1 ELSE nextId
       /\ HandleEvent(event)
  /\ UNCHANGED <<envVars, reqVars, ended, replied, requests, received2, phase2, response>>

\* mutant: no try / catch around executeTool, a throwing tool reaches the
\* catch block of the request
ExecToolUncaught ==
  /\ pc = "exec"
  /\ LET toolUse == toolUseBlocks[toolIdx]
         results == Append(toolResults, ToolResult(toolUse))
     IN  /\ executed' = Append(executed, [id |-> toolUse.id, name |-> toolUse.name,
                                          input |-> toolUse.input])
         /\ IF executeTool(toolUse.name, toolUse.input).threw
            THEN /\ written' = Append(written, ErrorEvent("Unknown tool"))
                 /\ ended' = ended + 1
                 /\ pc' = "errored"
                 /\ UNCHANGED <<toolResults, toolIdx, requests>>
            ELSE /\ toolResults' = results
                 /\ ended' = ended
                 /\ IF toolIdx < Len(toolUseBlocks)
                    THEN /\ toolIdx' = toolIdx + 1
                         /\ UNCHANGED <<written, requests, pc>>
                    ELSE /\ toolIdx' = toolIdx
                         /\ written' = Append(written, ToolExecution(results))
                         /\ requests' = Append(requests,
                              UpdatedMessages(messages,
                                              AssistantContent(fullContent, toolUseBlocks),
                                              results))
                         /\ pc' = "awaitFollow"
  /\ UNCHANGED <<envVars, reqVars, loopVars, replied, streamVars, response>>

\* mutant: a tool_execution event is written after every tool, with its result
ExecToolWritesEachResult ==
  /\ pc = "exec"
  /\ LET toolUse == toolUseBlocks[toolIdx]
         results == Append(toolResults, ToolResult(toolUse))
     IN  /\ executed' = Append(executed, [id |-> toolUse.id, name |-> toolUse.name,
                                          input |-> toolUse.input])
         /\ toolResults' = results
         /\ IF toolIdx < Len(toolUseBlocks)
            THEN /\ toolIdx' = toolIdx + 1
                 /\ written' = Append(written, ToolExecution(<<ToolResult(toolUse)>>))
                 /\ UNCHANGED <<requests, pc>>
            ELSE /\ toolIdx' = toolIdx
                 /\ written' = Append(written, ToolExecution(<<ToolResult(toolUse)>>))
                 /\ requests' = Append(requests,
                      UpdatedMessages(messages,
                                      AssistantContent(fullContent, toolUseBlocks),
                                      results))
                 /\ pc' = "awaitFollow"
  /\ UNCHANGED <<envVars, reqVars, loopVars, ended, replied, streamVars, response>>

\* one turn of for (const toolUse of toolUseBlocks); after the last one the
\* tool_execution event is written and the follow-up request is issued
ExecTool ==
  /\ pc = "exec"
  /\ LET toolUse == toolUseBlocks[toolIdx]
         results == Append(toolResults, ToolResult(toolUse))
     IN  /\ executed' = Append(executed, [id |-> toolUse.id, name |-> toolUse.name,
                                          input |-> toolUse.input])
         /\ toolResults' = results
         /\ IF toolIdx < Len(toolUseBlocks)
            THEN /\ toolIdx' = toolIdx + 1
                 /\ UNCHANGED <<written, requests, pc>>
            ELSE /\ toolIdx' = toolIdx
                 /\ written' = Append(written, ToolExecution(results))
                 /\ requests' = Append(requests,
                      UpdatedMessages(messages,
                                      AssistantContent(fullContent, toolUseBlocks),
                                      results))
                 /\ pc' = "awaitFollow"
  /\ UNCHANGED <<envVars, reqVars, loopVars, ended, replied, streamVars, response>>

\* the follow-up create call resolves with finalStream
FollowCreated ==
  /\ pc = "awaitFollow"
  /\ written' = Append(written, FollowupStart)
  /\ pc' = "follow"
  /\ UNCHANGED <<envVars, reqVars, loopVars, toolVars, ended, replied, requests,
                 streamVars, response>>

\* for await (const event of finalStream) { res.write(..) }
FollowEvent ==
  /\ pc = "follow"
  /\ Len(received) + Len(received2) < MaxEvents
  /\ PairEvents < MaxPairEvents
  /\ \E event \in StreamEvents(phase2, nextId) :
       /\ received2' = Append(received2, event)
       /\ phase2' = NextPhase(phase2, event)
       /\ nextId' = IF phase2' = "tool" /\ phase2 = "idle" THEN nextId + 1 ELSE nextId
       /\ written' = Relay(written, event)
  /\ UNCHANGED <<envVars, reqVars, pc, loopVars, toolVars, ended, replied, requests,
                 received, phase1, response>>

\* mutant: the follow-up stream is handled like the first one, its message_stop
\* starts another round of tools
FollowEndAnotherRound ==
  /\ pc = "follow"
  /\ pc' = IF Len(requests) < 4 THEN "exec" ELSE "first"
  /\ toolResults' = <<>>
  /\ toolIdx' = 1
  /\ UNCHANGED <<envVars, reqVars, loopVars, executed, written, ended, replied,
                 requests, streamVars, response>>

\* finalStream is exhausted: control is back in the first-pass loop
FollowEnd ==
  /\ pc = "follow"
  /\ pc' = "first"
  /\ UNCHANGED <<envVars, reqVars, loopVars, toolVars, written, ended, replied,
                 requests, streamVars, response>>

\* mutant: the response is left open after the [DONE] line
FirstEndLeavesOpen ==
  /\ pc = "first"
  /\ written' = Append(written, Done)
  /\ pc' = "done"
  /\ UNCHANGED <<envVars, reqVars, loopVars, toolVars, ended, replied, requests,
                 streamVars, response>>

\* the first-pass stream is exhausted: res.write('data: [DONE]\n\n'); res.end()
FirstEnd ==
  /\ pc = "first"
  /\ written' = Append(written, Done)
  /\ ended' = ended + 1
  /\ pc' = "done"
  /\ UNCHANGED <<envVars, reqVars, loopVars, toolVars, replied, requests,
                 streamVars, response>>

\* error.message of a failure of the collaborator
CollaboratorFailure == "Connection error."

\* mutant: the catch block falls through to the [DONE] line
StreamingThrowsThenDone ==
  /\ pc \in {"awaitStream", "first", "awaitFollow", "follow"}
  /\ written' = written \o <<ErrorEvent(CollaboratorFailure), Done>>
  /\ ended' = ended + 1
  /\ pc' = "errored"
  /\ UNCHANGED <<envVars, reqVars, loopVars, toolVars, replied, requests,
                 streamVars, response>>

\* a create call or a stream iteration throws: the inner catch block
StreamingThrows ==
  /\ pc \in {"awaitStream", "first", "awaitFollow", "follow"}
  /\ IF ended = 0
     THEN /\ written' = Append(written, ErrorEvent(CollaboratorFailure))
          /\ ended' = ended + 1
     ELSE UNCHANGED <<written, ended>>
  /\ pc' = "errored"
  /\ UNCHANGED <<envVars, reqVars, loopVars, toolVars, replied, requests,
                 streamVars, response>>

\* --------------------------------------------------- non-streaming path
\* the arguments of the tool_use blocks of a non-streaming response, as the
\* JSON text the SDK parses, by tool name
InputDocs(name) ==
  CASE name = "lookup_staff_directory" ->
         { <<NullTok>>,
           <<LBrace, QtAll, RBrace>>,
           <<LBrace, QtByName, RBrace>>,
           <<LBrace, QtAll, Comma, QtByName, Comma, TermX, RBrace>> }
    [] name = "company_calculator" ->
         { <<LBrace, OpBogus, RBrace>>,
           <<LBrace, OpBasic, Comma, ValsBadOp, RBrace>>,
           <<LBrace, OpPct, Comma, ValsPct, RBrace>> }
    [] name = "query_rag_system" ->
         { <<LBrace, QueryRag, Comma, IndexKb, RBrace>> }
    [] OTHER -> { <<LBrace, RBrace>> }
Inputs(name) == {JSONParse(d).value : d \in InputDocs(name)}

TextBlock(text) == [type |-> "text", text |-> text]
ToolUseBlock(id, name, input) ==
  [type |-> "tool_use", id |-> id, name |-> name, input |-> input]

\* the blocks a response may carry at position id
ResponseBlocks(id) ==
  {TextBlock(t) : t \in {<<"a">>, <<" ">>}}
    \cup UNION {{ToolUseBlock(id, n, i) : i \in Inputs(n)} : n \in ToolNames}

\* the blocks of the follow-up response
FinalBlocks(id) ==
  {TextBlock(t) : t \in {<<"a">>, <<" ">>}}
    \cup {ToolUseBlock(id, "get_weather", JNull)}

HasToolUse(content) == \E i \in 1..Len(content) : content[i].type = "tool_use"

\* the first responses of the collaborator: stop_reason is tool_use only
\* when the content holds a tool_use block
Responses ==
  UNION { { [content |-> c, stop_reason |-> r] :
              c \in {q \in [1..n -> UNION {ResponseBlocks(k) : k \in 1..n}] :
                       \A k \in 1..n : q[k] \in ResponseBlocks(k)},
              r \in {"end_turn", "tool_use", "max_tokens"} }
          : n \in 0..MaxBlocks }

FinalResponses ==
  UNION { { [content |-> c, stop_reason |-> "end_turn"] :
              c \in {q \in [1..n -> UNION {FinalBlocks(k) : k \in 1..n}] :
                       \A k \in 1..n : q[k] \in FinalBlocks(k)} }
          : n \in 0..MaxBlocks }

\* content.filter(block => block.type === 'text').map(block => block.text).join('')
RECURSIVE ResponseText(_)
ResponseText(content) ==
  IF content = <<>> THEN <<>>
  ELSE (IF Head(content).type = "text" THEN Head(content).text ELSE <<>>)
       \o ResponseText(Tail(content))

\* mutant: only the first tool_use block of the response is kept
FilterToolUseFirstOnly(content) ==
  IF \E i \in 1..Len(content) : content[i].type = "tool_use"
  THEN <<content[CHOOSE i \in 1..Len(content) :
                   /\ content[i].type = "tool_use"
                   /\ \A j \in 1..(i-1) : content[j].type # "tool_use"]>>
  ELSE <<>>

\* response.content.filter(block => block.type === 'tool_use')
RECURSIVE FilterToolUse(_)
FilterToolUse(content) ==
  IF content = <<>> THEN <<>>
  ELSE (IF Head(content).type = "tool_use" THEN <<Head(content)>> ELSE <<>>)
       \o FilterToolUse(Tail(content))

\* the outer catch block: if (!res.headersSent) res.status(500).json(..)
InternalError(sent, msg) ==
  IF sent = <<>>
  THEN Append(sent, [status |-> 500,
                     body |-> [error |-> "Error processing your request",
                               details |-> msg]])
  ELSE sent

\* else { if (!process.env.ANTHROPIC_API_KEY) throw ..;
\* const response = await anthropic.messages.create(..)
StartNonStreaming ==
  /\ pc = "start"
  /\ ~stream
  /\ IF apiKey
     THEN /\ requests' = Append(requests, messages)
          /\ pc' = "awaitResponse"
          /\ UNCHANGED replied
     ELSE /\ replied' = InternalError(replied, KeyNotConfigured)
          /\ pc' = "errored"
          /\ UNCHANGED requests
  /\ UNCHANGED <<envVars, reqVars, loopVars, toolVars, written, ended, streamVars,
                 response>>

\* the first response arrives: tool use is detected, or the text is returned
ResponseArrives ==
  /\ pc = "awaitResponse"
  /\ \E r \in Responses :
       /\ r.stop_reason = "tool_use" => HasToolUse(r.content)
       /\ response' = <<r>>
       /\ IF r.stop_reason = "tool_use"
          THEN /\ toolUseBlocks' = FilterToolUse(r.content)
               /\ toolResults' = <<>>
               /\ toolIdx' = 1
               /\ pc' = "execNS"
               /\ UNCHANGED replied
          ELSE /\ replied' = Append(replied,
                     [status |-> 200, body |-> [response |-> ResponseText(r.content)]])
               /\ pc' = "done"
               /\ UNCHANGED <<toolUseBlocks, toolResults, toolIdx>>
  /\ UNCHANGED <<envVars, reqVars, fullContent, currentToolUse, currentTextBlock,
                 executed, written, ended, requests, streamVars>>

\* one turn of the non-streaming tool loop; after the last one the
\* follow-up request is issued
ExecToolNS ==
  /\ pc = "execNS"
  /\ LET toolUse == toolUseBlocks[toolIdx]
         results == Append(toolResults, ToolResult(toolUse))
     IN  /\ executed' = Append(executed, [id |-> toolUse.id, name |-> toolUse.name,
                                          input |-> toolUse.input])
         /\ toolResults' = results
         /\ IF toolIdx < Len(toolUseBlocks)
            THEN /\ toolIdx' = toolIdx + 1
                 /\ UNCHANGED <<requests, pc>>
            ELSE /\ toolIdx' = toolIdx
                 /\ requests' = Append(requests,
                      UpdatedMessages(messages, response[1].content, results))
                 /\ pc' = "awaitFinal"
  /\ UNCHANGED <<envVars, reqVars, loopVars, written, ended, replied, streamVars,
                 response>>

\* the follow-up response arrives: res.json({ response: responseText })
FinalArrives ==
  /\ pc = "awaitFinal"
  /\ \E r \in FinalResponses :
       /\ response' = Append(response, r)
       /\ replied' = Append(replied,
                      [status |-> 200, body |-> [response |-> ResponseText(r.content)]])
  /\ pc' = "done"
  /\ UNCHANGED <<envVars, reqVars, loopVars, toolVars, written, ended, requests,
                 streamVars>>

\* mutant: the outer catch block only logs
NonStreamingThrowsUnanswered ==
  /\ pc \in {"awaitResponse", "awaitFinal"}
  /\ pc' = "errored"
  /\ UNCHANGED <<envVars, reqVars, loopVars, toolVars, written, ended, replied,
                 requests, streamVars, response>>

\* a create call throws: the outer catch block answers 500
NonStreamingThrows ==
  /\ pc \in {"awaitResponse", "awaitFinal"}
  /\ replied' = InternalError(replied, CollaboratorFailure)
  /\ pc' = "errored"
  /\ UNCHANGED <<envVars, reqVars, loopVars, toolVars, written, ended, requests,
                 streamVars, response>>

\* ------------------------------------------------------------ RAG module
\* the module is loaded by the scripts that build the knowledge base: each
\* client is created inside try / catch at load time and stays undefined
\* when its constructor throws, as it does without its API key

\* how an operation that sends the requests calls, in this order, can end:
\* the k-th request fails, or all succeed
Attempt(calls) ==
  {[calls |-> SubSeq(calls, 1, k), result |-> Threw(CollaboratorFailure)] :
     k \in 1..Len(calls)}
    \cup {[calls |-> calls, result |-> Returned("ok")]}

\* try { if (!client) throw new Error(notInitialized); ...requests...
\* } catch (error) { logRAG(..); throw error }
RagOperation(op, client, notInitialized, requestLists) ==
  /\ pc = "script"
  /\ Len(ragLog) < MaxOps
  /\ IF ~client
     THEN ragLog' = Append(ragLog, [op |-> op, calls |-> <<>>,
                                    result |-> Threw(notInitialized)])
     ELSE \E calls \in requestLists : \E a \in Attempt(calls) :
            ragLog' = Append(ragLog, [op |-> op, calls |-> a.calls,
                                      result |-> a.result])
  /\ UNCHANGED <<apiKey, parked, openaiClient, pineconeClient, batch, moduleVars,
                 clientVars, reqVars, pc, loopVars, toolVars, written, ended, replied,
                 requests, streamVars, response>>

OpenAINotInitialized == "OpenAI client not initialized"
PineconeNotInitialized == "Pinecone client not initialized"

\* mutant: no check of the client, the property access on undefined throws
generateEmbeddingsUnchecked ==
  RagOperation("generateEmbeddings", openaiClient,
               "Cannot read properties of undefined (reading 'embeddings')",
               {<<"embeddings.create">>})

generateEmbeddings ==
  RagOperation("generateEmbeddings", openaiClient, OpenAINotInitialized,
               {<<"embeddings.create">>})

saveToPinecone ==
  RagOperation("saveToPinecone", pineconeClient, PineconeNotInitialized,
               {<<"upsert">>})

\* the index exists already, or it is created
createPineconeIndex ==
  RagOperation("createPineconeIndex", pineconeClient, PineconeNotInitialized,
               {<<"listIndexes">>, <<"listIndexes", "createIndex">>})

deletePineconeIndex ==
  RagOperation("deletePineconeIndex", pineconeClient, PineconeNotInitialized,
               {<<"deleteIndex">>})

listPineconeIndexes ==
  RagOperation("listPineconeIndexes", pineconeClient, PineconeNotInitialized,
               {<<"listIndexes">>})

getIndexStats ==
  RagOperation("getIndexStats", pineconeClient, PineconeNotInitialized,
               {<<"describeIndexStats">>})

updateDocumentMetadata ==
  RagOperation("updateDocumentMetadata", pineconeClient, PineconeNotInitialized,
               {<<"fetch", "update">>})

deleteDocuments ==
  RagOperation("deleteDocuments", pineconeClient, PineconeNotInitialized,
               {<<"deleteMany">>})

\* ------------------------------------------- batchProcessDocuments
\* the documents of a call, named by their ids, and the batch sizes
DocumentLists == {[j \in 1..n |-> j] : n \in 0..MaxDocs}
BatchSizes == 0..MaxBatchSize

\* documents.slice(i, i + batchSize) for i >= 0 and batchSize >= 0
Slice(documents, i, batchSize) ==
  SubSeq(documents, i + 1,
         IF i + batchSize < Len(documents) THEN i + batchSize ELSE Len(documents))

\* after the save of a batch: wait before the next batch, or i += batchSize
\* and back to the loop condition
AfterSave(b) ==
  IF b.i + b.batchSize < Len(b.documents)
  THEN [b EXCEPT !.at = "delay"]
  ELSE [b EXCEPT !.i = @ + b.batchSize, !.at = "head"]

\* after the inner loop: if (vectors.length > 0) await saveToPinecone(..)
AfterInner(b) ==
  IF b.vectors # <<>> THEN [b EXCEPT !.at = "save"] ELSE AfterSave(b)

\* what the browser client and the server have to do with a batch run: nothing
batchFrame == <<apiKey, parked, openaiClient, pineconeClient, ragLog, moduleVars,
                clientVars, reqVars, pc, loopVars, toolVars, written, ended,
                replied, requests, streamVars, response>>

\* for (let i = ..; i < documents.length; ..): the condition, and the body up
\* to its first await
BatchIterate ==
  /\ batch.at = "head"
  /\ batch' =
       IF batch.i < Len(batch.documents)
       THEN LET cur == Slice(batch.documents, batch.i, batch.batchSize)
                b == [batch EXCEPT !.cur = cur, !.k = 1, !.vectors = <<>>]
            IN  IF cur # <<>> THEN [b EXCEPT !.at = "embed"] ELSE AfterInner(b)
       ELSE [batch EXCEPT !.at = "returned"]
  /\ UNCHANGED batchFrame

\* mutant: the first failed embedding ends the inner loop
BatchEmbedStopsAtError ==
  /\ batch.at = "embed"
  /\ \E ok \in {TRUE, FALSE} :
       /\ ok => openaiClient
       /\ LET doc == batch.cur[batch.k]
              b == [batch EXCEPT !.embedded = Append(@, doc), !.k = @ + 1]
              c == IF ok
                   THEN [b EXCEPT !.vectors = Append(@, doc), !.processedCount = @ + 1]
                   ELSE [b EXCEPT !.errorCount = @ + 1,
                                  !.errors = Append(@, [document_id |-> doc,
                                     error |-> IF openaiClient THEN CollaboratorFailure
                                               ELSE OpenAINotInitialized])]
          IN  batch' = IF batch.k = Len(batch.cur) \/ ~ok THEN AfterInner(c) ELSE c
  /\ UNCHANGED batchFrame

\* one turn of for (const doc of batch): await generateEmbeddings(..) inside
\* try / catch
BatchEmbed ==
  /\ batch.at = "embed"
  /\ \E ok \in {TRUE, FALSE} :
       /\ ok => openaiClient
       /\ LET doc == batch.cur[batch.k]
              b == [batch EXCEPT !.embedded = Append(@, doc), !.k = @ + 1]
              c == IF ok
                   THEN [b EXCEPT !.vectors = Append(@, doc), !.processedCount = @ + 1]
                   ELSE [b EXCEPT !.errorCount = @ + 1,
                                  !.errors = Append(@, [document_id |-> doc,
                                     error |-> IF openaiClient THEN CollaboratorFailure
                                               ELSE OpenAINotInitialized])]
          IN  batch' = IF batch.k = Len(batch.cur) THEN AfterInner(c) ELSE c
  /\ UNCHANGED batchFrame

\* await saveToPinecone(indexName, vectors, namespace): it resolves, or it
\* throws and the catch block of batchProcessDocuments throws on
BatchSave ==
  /\ batch.at = "save"
  /\ \E ok \in {TRUE, FALSE} :
       /\ ok => pineconeClient
       /\ LET b == [batch EXCEPT !.saved = Append(@, batch.vectors)]
          IN  batch' = IF ok THEN AfterSave(b) ELSE [b EXCEPT !.at = "threw"]
  /\ UNCHANGED batchFrame

\* the timer of await new Promise(resolve => setTimeout(resolve, 1000)) has
\* fired: i += batchSize and back to the loop condition
BatchDelay ==
  /\ batch.at = "delay"
  /\ batch' = [batch EXCEPT !.i = @ + batch.batchSize, !.at = "head"]
  /\ UNCHANGED batchFrame

\* return { total, processed, errors, error_details }
BatchResult ==
  [total |-> Len(batch.documents), processed |-> batch.processedCount,
   errors |-> batch.errorCount, error_details |-> batch.errors]

NextBatch ==
  \/ BatchIterate
  \/ BatchEmbed
  \/ BatchSave
  \/ BatchDelay

\* a script has loaded the module and calls batchProcessDocuments
InitBatch ==
  /\ pc = "batch"
  /\ stream = FALSE
  /\ messages \in Conversations
  /\ fullContent = <<>>
  /\ toolUseBlocks = <<>>
  /\ currentToolUse = <<>>
  /\ currentTextBlock = <<>>
  /\ toolResults = <<>>
  /\ toolIdx = 1
  /\ written = <<>>
  /\ ended = 0
  /\ replied = <<>>
  /\ requests = <<>>
  /\ executed = <<>>
  /\ received = <<>>
  /\ received2 = <<>>
  /\ phase1 = "idle"
  /\ phase2 = "idle"
  /\ nextId = 1
  /\ response = <<>>
  /\ apiKey = FALSE
  /\ connected = TRUE
  /\ body = Body(messages, stream)
  /\ parked = <<>>
  /\ openaiClient \in BOOLEAN
  /\ pineconeClient \in BOOLEAN
  /\ ragLog = <<>>
  /\ \E documents \in DocumentLists : \E batchSize \in BatchSizes :
       batch = BatchCall(documents, batchSize, "head")
  /\ staffDirectory = LoadedDirectory
  /\ toolTable = tools
  /\ toolLog = <<>>
  /\ PageLoaded

\* Every await of batchProcessDocuments is resumed: the embedding request
\* and the upsert resolve or reject, the timer fires.
SpecBatch ==
  /\ InitBatch
  /\ [][NextBatch]_vars
  /\ WF_vars(BatchIterate)
  /\ WF_vars(BatchEmbed)
  /\ WF_vars(BatchSave)
  /\ WF_vars(BatchDelay)

\* ------------------------------------------------- request validation
\* the values of messages and of stream a request body may carry
MessagesValues ==
  {JsUndefined, [t |-> "null"], [t |-> "string", v |-> ""],
   [t |-> "string", v |-> "hi"], [t |-> "number", v |-> 0],
   [t |-> "object"], JsArray(<<>>)}
    \cup {JsArray(c) : c \in Conversations}
StreamValues == {JsUndefined, JsBoolean(TRUE), JsBoolean(FALSE)}
RequestBodies == [messages : MessagesValues, stream : StreamValues]

\* !x for a value of a body property
Falsy(x) ==
  \/ x.t \in {"undefined", "null"}
  \/ x.t = "string" /\ x.v = ""
  \/ x.t = "number" /\ x.v = 0
  \/ x.t = "boolean" /\ ~x.v

\* Array.isArray(x)
IsArray(x) == x.t = "array"

\* res.status(400).json({ error: 'Invalid messages format' })
BadRequest ==
  [status |-> 400, body |-> [error |-> "Invalid messages format"]]

\* mutant: only !messages is tested
ValidateMessagesTruthyOnly ==
  /\ pc = "received"
  /\ stream' = ~Falsy(body.stream)
  /\ IF Falsy(body.messages)
     THEN /\ replied' = Append(replied, BadRequest)
          /\ pc' = "rejected"
          /\ UNCHANGED messages
     ELSE /\ messages' = (IF IsArray(body.messages) THEN body.messages.v ELSE <<>>)
          /\ pc' = "start"
          /\ UNCHANGED replied
  /\ UNCHANGED <<envVars, connected, body, loopVars, toolVars, written, ended,
                 requests, streamVars, response>>

\* const { messages, stream = false } = req.body;
\* if (!messages || !Array.isArray(messages)) return res.status(400).json(..)
ValidateMessages ==
  /\ pc = "received"
  /\ stream' = ~Falsy(body.stream)
  /\ IF Falsy(body.messages) \/ ~IsArray(body.messages)
     THEN /\ replied' = Append(replied, BadRequest)
          /\ pc' = "rejected"
          /\ UNCHANGED messages
     ELSE /\ messages' = body.messages.v
          /\ pc' = "start"
          /\ UNCHANGED replied
  /\ UNCHANGED <<envVars, connected, body, loopVars, toolVars, written, ended,
                 requests, streamVars, response>>

Next ==
  \/ StartStreaming
  \/ StreamCreated
  \/ FirstEvent
  \/ ExecTool
  \/ FollowCreated
  \/ FollowEvent
  \/ FollowEnd
  \/ FirstEnd
  \/ StreamingThrows
  \/ StartNonStreaming
  \/ ResponseArrives
  \/ ExecToolNS
  \/ FinalArrives
  \/ NonStreamingThrows
  \/ generateEmbeddings
  \/ saveToPinecone
  \/ createPineconeIndex
  \/ deletePineconeIndex
  \/ listPineconeIndexes
  \/ getIndexStats
  \/ updateDocumentMetadata
  \/ deleteDocuments

\* the requests of Spec are those whose client stays connected
Spec == Init /\ [][Next]_vars

\* the client closes its connection while the streaming response is open;
\* the handler registers no listener on req or res and reads no connection
\* state, so nothing but the connection changes
ClientDisconnects ==
  /\ stream
  /\ connected
  /\ pc \in {"awaitStream", "first", "exec", "awaitFollow", "follow"}
  /\ connected' = FALSE
  /\ UNCHANGED <<envVars, stream, messages, body, pc, loopVars, toolVars, written,
                 ended, replied, requests, streamVars, response>>

NextDisconnect ==
  \/ Next
  \/ ClientDisconnects

\* requests whose client may disconnect mid-stream
SpecDisconnect == Init /\ [][NextDisconnect]_vars

\* ------------------------------------------- streaming requests that end
\* a streaming request has arrived
InitLive == Init /\ stream

\* the streams deliver MaxLiveEvents events at most, both together
LiveFirstEvent == Len(received) < MaxLiveEvents /\ FirstEvent
LiveFollowEvent == Len(received) + Len(received2) < MaxLiveEvents /\ FollowEvent

NextLive ==
  \/ StartStreaming
  \/ StreamCreated
  \/ LiveFirstEvent
  \/ ExecTool
  \/ FollowCreated
  \/ LiveFollowEvent
  \/ FollowEnd
  \/ FirstEnd
  \/ StreamingThrows

\* Every await of the handler is resumed: a create call resolves unless it
\* rejects, a tool returns or throws, and a stream that yields no further
\* event is exhausted, so the for-await loop over it is left.
SpecLive ==
  /\ InitLive
  /\ [][NextLive]_vars
  /\ WF_vars(StartStreaming)
  /\ WF_vars(StreamCreated)
  /\ WF_vars(ExecTool)
  /\ WF_vars(FollowCreated)
  /\ WF_vars(FollowEnd)
  /\ WF_vars(FirstEnd)

\* ------------------------------------------ the handler from its entry
\* a request has reached app.post('/api/chat', ..) with some body
InitValidate ==
  /\ pc = "received"
  /\ stream = FALSE
  /\ messages = <<>>
  /\ fullContent = <<>>
  /\ toolUseBlocks = <<>>
  /\ currentToolUse = <<>>
  /\ currentTextBlock = <<>>
  /\ toolResults = <<>>
  /\ toolIdx = 1
  /\ written = <<>>
  /\ ended = 0
  /\ replied = <<>>
  /\ requests = <<>>
  /\ executed = <<>>
  /\ received = <<>>
  /\ received2 = <<>>
  /\ phase1 = "idle"
  /\ phase2 = "idle"
  /\ nextId = 1
  /\ response = <<>>
  /\ apiKey \in BOOLEAN
  /\ connected = TRUE
  /\ body \in RequestBodies
  /\ parked = <<>>
  /\ openaiClient = FALSE
  /\ pineconeClient = FALSE
  /\ ragLog = <<>>
  /\ batch = BatchCall(<<>>, 1, "none")
  /\ staffDirectory = LoadedDirectory
  /\ toolTable = tools
  /\ toolLog = <<>>
  /\ PageLoaded

NextValidate ==
  \/ ValidateMessages
  \/ StartStreaming
  \/ StreamCreated
  \/ LiveFirstEvent
  \/ ExecTool
  \/ FollowCreated
  \/ LiveFollowEvent
  \/ FollowEnd
  \/ FirstEnd
  \/ StreamingThrows
  \/ StartNonStreaming
  \/ ResponseArrives
  \/ ExecToolNS
  \/ FinalArrives
  \/ NonStreamingThrows

SpecValidate == InitValidate /\ [][NextValidate]_vars

\* --------------------------------------- the tools module, called directly
\* inputs of lookup_staff_directory
LookupInputs ==
  { JObject({<<"query_type", "all">>}),
    JObject({<<"query_type", "by_name">>}),
    JObject({<<"query_type", "by_name">>, <<"search_term", "x">>}),
    JObject({<<"query_type", "by_department">>, <<"search_term", "y">>}),
    JObject({<<"query_type", "by_role">>, <<"search_term", "x">>}),
    JObject({<<"query_type", "by_team">>, <<"search_term", "x">>}) }

\* values objects of the operation 'percentage': amounts of 0, 0.01, 0.03 and
\* 50000, percentages of 0, 15 and 50, with or without a total and a part
Amounts == {0, 1, 3, 50000 * Hundred}
Percentages == {0, 15, 50}
PercentageValues ==
  { {<<"amount", a>>, <<"percentage", p>>} \cup tp :
      a \in Amounts, p \in Percentages,
      tp \in {{}, {<<"total", 2 * Hundred>>, <<"part", Hundred>>}} }

\* tools.js has been loaded: staff-directory.json was read, or the catch
\* block has put the empty directory in its place; no request is running
InitTools ==
  /\ pc = "tools"
  /\ stream = FALSE
  /\ messages \in Conversations
  /\ fullContent = <<>>
  /\ toolUseBlocks = <<>>
  /\ currentToolUse = <<>>
  /\ currentTextBlock = <<>>
  /\ toolResults = <<>>
  /\ toolIdx = 1
  /\ written = <<>>
  /\ ended = 0
  /\ replied = <<>>
  /\ requests = <<>>
  /\ executed = <<>>
  /\ received = <<>>
  /\ received2 = <<>>
  /\ phase1 = "idle"
  /\ phase2 = "idle"
  /\ nextId = 1
  /\ response = <<>>
  /\ apiKey = FALSE
  /\ connected = TRUE
  /\ body = Body(messages, stream)
  /\ parked = <<>>
  /\ openaiClient = FALSE
  /\ pineconeClient = FALSE
  /\ ragLog = <<>>
  /\ batch = BatchCall(<<>>, 1, "none")
  /\ staffDirectory \in {LoadedDirectory, FallbackDirectory}
  /\ toolTable = tools
  /\ toolLog = <<>>
  /\ PageLoaded

\* what a direct call leaves alone: everything of the server and of the RAG
\* module
callFrame == <<apiKey, parked, ragVars, clientVars, reqVars, pc, loopVars, toolVars, written,
               ended, replied, requests, streamVars, response>>

\* mutant: the lookup filters the directory in place
CallLookupFiltersInPlace ==
  /\ pc = "tools"
  /\ Len(toolLog) < MaxCalls
  /\ \E input \in LookupInputs :
       /\ toolLog' = Append(toolLog,
            [name |-> "lookup_staff_directory", input |-> input,
             result |-> executeTool("lookup_staff_directory", input)])
       /\ staffDirectory' =
            IF Get(input, "query_type") = "by_name" /\ Get(input, "search_term") # Undefined
            THEN [staff |-> SelectSeq(staffDirectory.staff,
                    LAMBDA person : Includes(person.name, Get(input, "search_term")))]
            ELSE staffDirectory
  /\ UNCHANGED <<toolTable, callFrame>>

\* executeTool('lookup_staff_directory', input)
CallLookup ==
  /\ pc = "tools"
  /\ Len(toolLog) < MaxCalls
  /\ \E input \in LookupInputs :
       toolLog' = Append(toolLog,
         [name |-> "lookup_staff_directory", input |-> input,
          result |-> executeTool("lookup_staff_directory", input)])
  /\ UNCHANGED <<staffDirectory, toolTable, callFrame>>

\* executeTool('company_calculator', {operation: 'percentage', values}) with
\* numbers in values: no statement of the try block throws, the payload is
\* given by its result object
CallPercentage ==
  /\ pc = "tools"
  /\ Len(toolLog) < MaxCalls
  /\ \E values \in PercentageValues :
       toolLog' = Append(toolLog,
         [name |-> "company_calculator", input |-> values,
          result |-> Returned(percentage(values))])
  /\ UNCHANGED <<staffDirectory, toolTable, callFrame>>

\* executeTool(name, input) with a name the switch has no case for
CallUnknown ==
  /\ pc = "tools"
  /\ Len(toolLog) < MaxCalls
  /\ \E name \in ToolNames \ tools :
       toolLog' = Append(toolLog,
         [name |-> name, input |-> JObject({}),
          result |-> executeTool(name, JObject({}))])
  /\ UNCHANGED <<staffDirectory, toolTable, callFrame>>

NextTools ==
  \/ CallLookup
  \/ CallPercentage
  \/ CallUnknown

\* calls of executeTool one after the other on the loaded module
SpecTools == InitTools /\ [][NextTools]_vars

\* ------------------------------------------------ two requests in flight
\* what one invocation of the handler closes over: req, res and the
\* variables declared inside the handler
Running ==
  [stream |-> stream, messages |-> messages, pc |-> pc,
   fullContent |-> fullContent, toolUseBlocks |-> toolUseBlocks,
   currentToolUse |-> currentToolUse, currentTextBlock |-> currentTextBlock,
   toolResults |-> toolResults, toolIdx |-> toolIdx, written |-> written,
   ended |-> ended, replied |-> replied, requests |-> requests,
   executed |-> executed, received |-> received, received2 |-> received2,
   phase1 |-> phase1, phase2 |-> phase2, response |-> response,
   connected |-> connected]

\* the conversation of the second request
PeerConversation == <<[role |-> "user", content |-> "other"]>>

\* a second streaming request has been accepted and waits for its turn
InitPair ==
  /\ stream = TRUE
  /\ messages \in Conversations
  /\ pc = "start"
  /\ fullContent = <<>>
  /\ toolUseBlocks = <<>>
  /\ currentToolUse = <<>>
  /\ currentTextBlock = <<>>
  /\ toolResults = <<>>
  /\ toolIdx = 1
  /\ written = <<>>
  /\ ended = 0
  /\ replied = <<>>
  /\ requests = <<>>
  /\ executed = <<>>
  /\ received = <<>>
  /\ received2 = <<>>
  /\ phase1 = "idle"
  /\ phase2 = "idle"
  /\ nextId = 1
  /\ response = <<>>
  /\ apiKey = TRUE
  /\ connected = TRUE
  /\ body = Body(messages, stream)
  /\ parked = <<[Running EXCEPT !.messages = PeerConversation]>>
  /\ openaiClient = FALSE
  /\ pineconeClient = FALSE
  /\ ragLog = <<>>
  /\ batch = BatchCall(<<>>, 1, "none")
  /\ staffDirectory = LoadedDirectory
  /\ toolTable = tools
  /\ toolLog = <<>>
  /\ PageLoaded

\* mutant: toolUseBlocks is declared at module level, one list for all requests
SwitchSharedPending ==
  /\ parked # <<>>
  /\ parked' = <<Running>>
  /\ stream' = parked[1].stream
  /\ messages' = parked[1].messages
  /\ pc' = parked[1].pc
  /\ fullContent' = parked[1].fullContent
  /\ toolUseBlocks' = toolUseBlocks
  /\ currentToolUse' = parked[1].currentToolUse
  /\ currentTextBlock' = parked[1].currentTextBlock
  /\ toolResults' = parked[1].toolResults
  /\ toolIdx' = parked[1].toolIdx
  /\ written' = parked[1].written
  /\ ended' = parked[1].ended
  /\ replied' = parked[1].replied
  /\ requests' = parked[1].requests
  /\ executed' = parked[1].executed
  /\ received' = parked[1].received
  /\ received2' = parked[1].received2
  /\ phase1' = parked[1].phase1
  /\ phase2' = parked[1].phase2
  /\ response' = parked[1].response
  /\ connected' = parked[1].connected
  /\ UNCHANGED <<apiKey, nextId, ragVars, moduleVars, clientVars, body>>

\* the running invocation waits at its await and the event loop resumes the
\* other one, with the variables of its own closure
Switch ==
  /\ parked # <<>>
  /\ parked' = <<Running>>
  /\ stream' = parked[1].stream
  /\ messages' = parked[1].messages
  /\ pc' = parked[1].pc
  /\ fullContent' = parked[1].fullContent
  /\ toolUseBlocks' = parked[1].toolUseBlocks
  /\ currentToolUse' = parked[1].currentToolUse
  /\ currentTextBlock' = parked[1].currentTextBlock
  /\ toolResults' = parked[1].toolResults
  /\ toolIdx' = parked[1].toolIdx
  /\ written' = parked[1].written
  /\ ended' = parked[1].ended
  /\ replied' = parked[1].replied
  /\ requests' = parked[1].requests
  /\ executed' = parked[1].executed
  /\ received' = parked[1].received
  /\ received2' = parked[1].received2
  /\ phase1' = parked[1].phase1
  /\ phase2' = parked[1].phase2
  /\ response' = parked[1].response
  /\ connected' = parked[1].connected
  /\ UNCHANGED <<apiKey, nextId, ragVars, moduleVars, clientVars, body>>

NextPair ==
  \/ StartStreaming
  \/ StreamCreated
  \/ FirstEvent
  \/ ExecTool
  \/ FollowCreated
  \/ FollowEvent
  \/ FollowEnd
  \/ FirstEnd
  \/ Switch

\* two streaming requests whose handler invocations interleave at their awaits
SpecPair == InitPair /\ [][NextPair]_vars

\* --------------------------------------------------------------- client
\* sendMessageWithStreaming: let accumulatedContent = '', pendingText = '',
\* hasSeenToolUse = false
ClientStart ==
  [accumulatedContent |-> <<>>, pendingText |-> <<>>, hasSeenToolUse |-> FALSE]

\* mutant: every delta is taken as text, an argument fragment included
ClientOnEventShowsArguments(c, event) ==
  IF event.type = "content_block_delta"
  THEN LET shown == IF event.delta.type = "text_delta" THEN event.delta.text
                    ELSE event.delta.partial_json
       IN  IF ~c.hasSeenToolUse /\ event.delta.type = "text_delta"
           THEN [c EXCEPT !.pendingText = @ \o shown]
           ELSE [c EXCEPT !.accumulatedContent = @ \o shown]
  ELSE IF event.type = "content_block_start"
  THEN IF event.content_block.type = "tool_use"
       THEN [c EXCEPT !.hasSeenToolUse = TRUE, !.pendingText = <<>>]
       ELSE c
  ELSE IF event.type = "content_block_stop"
  THEN IF c.pendingText # <<>> /\ ~c.hasSeenToolUse
       THEN [c EXCEPT !.accumulatedContent = @ \o c.pendingText,
                      !.pendingText = <<>>]
       ELSE c
  ELSE IF event.type = "message_stop"
  THEN IF c.pendingText # <<>> /\ ~c.hasSeenToolUse
       THEN [c EXCEPT !.accumulatedContent = @ \o c.pendingText]
       ELSE c
  ELSE c

\* the handling of one data line that holds an event
ClientOnEvent(c, event) ==
  IF event.type = "content_block_delta"
  THEN IF event.delta.type = "text_delta"
       THEN IF ~c.hasSeenToolUse
            THEN [c EXCEPT !.pendingText = @ \o event.delta.text]
            ELSE [c EXCEPT !.accumulatedContent = @ \o event.delta.text]
       ELSE c
  ELSE IF event.type = "content_block_start"
  THEN IF event.content_block.type = "tool_use"
       THEN [c EXCEPT !.hasSeenToolUse = TRUE, !.pendingText = <<>>]
       ELSE c
  ELSE IF event.type = "content_block_stop"
  THEN IF c.pendingText # <<>> /\ ~c.hasSeenToolUse
       THEN [c EXCEPT !.accumulatedContent = @ \o c.pendingText,
                      !.pendingText = <<>>]
       ELSE c
  ELSE IF event.type = "message_stop"
  THEN IF c.pendingText # <<>> /\ ~c.hasSeenToolUse
       THEN [c EXCEPT !.accumulatedContent = @ \o c.pendingText]
       ELSE c
  ELSE c

\* the client after the data lines of out, read in order; the line of the
\* sentinel is skipped before JSON.parse
RECURSIVE ClientAfter(_, _)
ClientAfter(c, out) ==
  IF out = <<>> THEN c
  ELSE ClientAfter(IF Head(out) = Done THEN c ELSE ClientOnEvent(c, Head(out)),
                   Tail(out))

\* ------------------------------------------------- the browser client
\* what the user types, after userInput.value.trim()
UserMessages == {"", "hi", "more"}

\* the notice of both catch blocks, and the text kept when nothing was shown
SorryNotice == "Sorry, there was an error processing your request."
UsedToolNotice == "(Used tool to get information)"

\* a text of the model as the string it stands for
RECURSIVE Str(_)
Str(chars) == IF chars = <<>> THEN "" ELSE Head(chars) \o Str(Tail(chars))

\* addMessage(role, content), as far as the history goes:
\* if (content) { conversationHistory.push({ role, content }) }
addMessage(history, role, content) ==
  IF content # "" THEN Append(history, [role |-> role, content |-> content])
  ELSE history

\* the data lines of some responses of the streaming branch: a text answer, a
\* tool round with a text answer, a tool round without one, an error event
StaffCall ==
  [id |-> 1, name |-> "lookup_staff_directory",
   input |-> JObject({<<"query_type", "all">>})]
ToolRoundLines ==
  <<BlockStartTool(1, "lookup_staff_directory"),
    JsonDelta(<<LBrace, QtAll, RBrace>>), BlockStop, MessageStop,
    ToolExecution(<<ToolResult(StaffCall)>>), FollowupStart>>
ServerOutputs ==
  { <<BlockStartText, TextDelta(<<"a">>), BlockStop, MessageStop, Done>>,
    ToolRoundLines \o <<BlockStartText, TextDelta(<<"a">>), BlockStop, MessageStop, Done>>,
    ToolRoundLines \o <<MessageStop, Done>>,
    <<ErrorEvent(CollaboratorFailure)>> }

\* data.response of some answers of the non-streaming branch
ServerResponses == {"a", ""}

\* what the browser client leaves alone: the server
clientFrame == <<apiKey, parked, ragVars, moduleVars, reqVars, pc, loopVars,
                 toolVars, written, ended, replied, requests, streamVars, response>>

\* a click on sendButton or Enter in userInput reaches sendMessage: a
\* disabled control fires neither event
CanSubmit == ~page.sendButtonDisabled \/ ~page.userInputDisabled

\* sendButton.disabled = true; userInput.disabled = true, and in finally
\* both = false
Disabled(p, flag) ==
  [p EXCEPT !.sendButtonDisabled = flag, !.userInputDisabled = flag]

\* sendMessage with streamingEnabled, up to await fetch(..)
SubmitStreaming ==
  /\ CanSubmit
  /\ streamingEnabled
  /\ Len(fetched) < MaxSends
  /\ \E userMessage \in UserMessages \ {""} :
       LET history == Append(addMessage(conversationHistory, "user", userMessage),
                             [role |-> "assistant", content |-> ""])
       IN  /\ conversationHistory' = history
           /\ fetched' = Append(fetched, [messages |-> history, stream |-> TRUE])
  /\ sending' = "streaming"
  /\ page' = [Disabled(page, TRUE) EXCEPT !.shown = "", !.lines = <<>>,
                                          !.inFlight = @ + 1]
  /\ UNCHANGED <<streamingEnabled, reader, clientFrame>>

\* the response has been read to its end: the placeholder of the history gets
\* accumulatedContent || '(Used tool to get information)'; the element shows
\* the last updateMessage(messageId, accumulatedContent). An error event is
\* thrown and caught inside the loop over the lines (ClientOnEvent).
StreamingRead ==
  /\ sending = "streaming"
  /\ \E out \in ServerOutputs :
       LET accumulatedContent == Str(ClientAfter(ClientStart, out).accumulatedContent)
           assistantHistoryIndex == Len(conversationHistory)
       IN  /\ conversationHistory' =
                [conversationHistory EXCEPT ![assistantHistoryIndex].content =
                   IF accumulatedContent # "" THEN accumulatedContent ELSE UsedToolNotice]
           /\ page' = [Disabled(page, FALSE) EXCEPT !.shown = accumulatedContent,
                                                    !.lines = out, !.inFlight = @ - 1]
  /\ sending' = "idle"
  /\ UNCHANGED <<streamingEnabled, fetched, reader, clientFrame>>

\* fetch rejects, the status is not ok or reading the body throws: the catch
\* block of sendMessageWithStreaming
StreamingFails ==
  /\ sending = "streaming"
  /\ conversationHistory' =
       [conversationHistory EXCEPT ![Len(conversationHistory)].content = SorryNotice]
  /\ page' = [Disabled(page, FALSE) EXCEPT !.shown = SorryNotice, !.inFlight = @ - 1]
  /\ sending' = "idle"
  /\ UNCHANGED <<streamingEnabled, fetched, reader, clientFrame>>

\* mutant: the controls stay enabled while the request is in flight
SubmitNonStreamingLeavesEnabled ==
  /\ CanSubmit
  /\ ~streamingEnabled
  /\ Len(fetched) < MaxSends
  /\ \E userMessage \in UserMessages \ {""} :
       LET history == addMessage(conversationHistory, "user", userMessage)
       IN  /\ conversationHistory' = history
           /\ fetched' = Append(fetched, [messages |-> history, stream |-> FALSE])
  /\ sending' = "nonstreaming"
  /\ page' = [page EXCEPT !.inFlight = @ + 1]
  /\ UNCHANGED <<streamingEnabled, reader, clientFrame>>

\* sendMessage without streamingEnabled, up to await fetch(..)
SubmitNonStreaming ==
  /\ CanSubmit
  /\ ~streamingEnabled
  /\ Len(fetched) < MaxSends
  /\ \E userMessage \in UserMessages \ {""} :
       LET history == addMessage(conversationHistory, "user", userMessage)
       IN  /\ conversationHistory' = history
           /\ fetched' = Append(fetched, [messages |-> history, stream |-> FALSE])
  /\ sending' = "nonstreaming"
  /\ page' = [Disabled(page, TRUE) EXCEPT !.inFlight = @ + 1]
  /\ UNCHANGED <<streamingEnabled, reader, clientFrame>>

\* the JSON answer has arrived: addMessage('assistant', data.response)
NonStreamingAnswered ==
  /\ sending = "nonstreaming"
  /\ \E r \in ServerResponses :
       conversationHistory' = addMessage(conversationHistory, "assistant", r)
  /\ page' = [Disabled(page, FALSE) EXCEPT !.inFlight = @ - 1]
  /\ sending' = "idle"
  /\ UNCHANGED <<streamingEnabled, fetched, reader, clientFrame>>

\* fetch rejects or the status is not ok: the catch block of
\* sendMessageNonStreaming, addMessage('system', 'Sorry, ..')
NonStreamingFails ==
  /\ sending = "nonstreaming"
  /\ conversationHistory' = addMessage(conversationHistory, "system", SorryNotice)
  /\ page' = [Disabled(page, FALSE) EXCEPT !.inFlight = @ - 1]
  /\ sending' = "idle"
  /\ UNCHANGED <<streamingEnabled, fetched, reader, clientFrame>>

\* the change listener of the streaming toggle
ToggleStreaming ==
  /\ streamingEnabled' = ~streamingEnabled
  /\ UNCHANGED <<conversationHistory, sending, fetched, page, reader, clientFrame>>

NextClient ==
  \/ SubmitStreaming
  \/ StreamingRead
  \/ StreamingFails
  \/ SubmitNonStreaming
  \/ NonStreamingAnswered
  \/ NonStreamingFails
  \/ ToggleStreaming

\* a page of the browser client; the server is seen through its answers
InitClient ==
  /\ pc = "client"
  /\ stream = FALSE
  /\ messages \in Conversations
  /\ fullContent = <<>>
  /\ toolUseBlocks = <<>>
  /\ currentToolUse = <<>>
  /\ currentTextBlock = <<>>
  /\ toolResults = <<>>
  /\ toolIdx = 1
  /\ written = <<>>
  /\ ended = 0
  /\ replied = <<>>
  /\ requests = <<>>
  /\ executed = <<>>
  /\ received = <<>>
  /\ received2 = <<>>
  /\ phase1 = "idle"
  /\ phase2 = "idle"
  /\ nextId = 1
  /\ response = <<>>
  /\ apiKey = TRUE
  /\ connected = TRUE
  /\ body = Body(messages, stream)
  /\ parked = <<>>
  /\ openaiClient = FALSE
  /\ pineconeClient = FALSE
  /\ ragLog = <<>>
  /\ batch = BatchCall(<<>>, 1, "none")
  /\ staffDirectory = LoadedDirectory
  /\ toolTable = tools
  /\ toolLog = <<>>
  /\ PageLoaded

SpecClient == InitClient /\ [][NextClient]_vars

\* ------------------------------------------- reading the response body
\* The body of a streamed response as the client's decoder delivers it: every
\* data line in two pieces (the first one begins with 'data: '), followed by
\* the two line feeds the server writes after it. A chunk is any non-empty
\* run of these units.
Newline == [type |-> "LF"]
Piece(line, half) == [type |-> "piece", line |-> line, half |-> half]
RECURSIVE Wire(_)
Wire(out) ==
  IF out = <<>> THEN <<>>
  ELSE <<Piece(Head(out), 1), Piece(Head(out), 2), Newline, Newline>>
       \o Wire(Tail(out))

\* buffer.split('\n'): the pieces between the line feeds, at least one entry
RECURSIVE Split(_)
Split(text) ==
  LET feeds == {i \in 1..Len(text) : text[i].type = "LF"}
  IN  IF feeds = {} THEN <<text>>
      ELSE LET n == CHOOSE i \in feeds : \A j \in feeds : i <= j
           IN  <<SubSeq(text, 1, n - 1)>> \o Split(SubSeq(text, n + 1, Len(text)))

\* line.startsWith('data: ')
StartsWithData(line) == line # <<>> /\ line[1].half = 1

\* the line is a whole data line: line.slice(6) is what the server wrote
IsWhole(line) ==
  /\ Len(line) = 2
  /\ line[1].half = 1 /\ line[2].half = 2
  /\ line[1].line = line[2].line

\* data === '[DONE]'
IsDoneLine(line) == IsWhole(line) /\ line[1].line.type = "[DONE]"

\* the body of for (const line of lines) for a line that is not the
\* sentinel: JSON.parse(data) throws for a part of a data line, and the catch
\* block of the line logs it
HandleLine(r, line) ==
  IF StartsWithData(line) /\ IsWhole(line)
  THEN LET c == ClientOnEvent(r.c, line[1].line)
       IN  [r EXCEPT !.c = c, !.handled = Append(@, line[1].line)]
  ELSE r

\* for (const line of lines) { .. }: the sentinel leaves the loop
RECURSIVE HandleLines(_, _)
HandleLines(r, lines) ==
  IF lines = <<>> THEN r
  ELSE IF StartsWithData(Head(lines)) /\ IsDoneLine(Head(lines)) THEN r
  ELSE HandleLines(HandleLine(r, Head(lines)), Tail(lines))

\* const reader = response.body.getReader(); let buffer = ''; out is the
\* server's output and rest the part of the body not yet read; handled lists
\* the events that were parsed, split says that a chunk ended inside a data
\* line
ReaderStart(out) ==
  [at |-> "reading", out |-> out, rest |-> Wire(out), buffer |-> <<>>,
   c |-> ClientStart, handled |-> <<>>, split |-> FALSE]

\* the conversation of the request whose response is read
SentHistory ==
  <<[role |-> "assistant", content |-> Greeting],
    [role |-> "user", content |-> "hi"],
    [role |-> "assistant", content |-> ""]>>

\* mutant: the unfinished last line is handled with the others and dropped
ReadChunkDropsRemainder ==
  /\ reader.at = "reading"
  /\ reader.rest # <<>>
  /\ \E n \in 1..Len(reader.rest) :
       LET buffer == reader.buffer \o SubSeq(reader.rest, 1, n)
           lines == Split(buffer)
           r == HandleLines(reader, lines)
       IN  /\ reader' = [r EXCEPT !.rest = SubSeq(reader.rest, n + 1, Len(reader.rest)),
                                  !.buffer = <<>>,
                                  !.split = @ \/ StartsWithData(lines[Len(lines)])]
           /\ page' = [page EXCEPT !.shown = Str(r.c.accumulatedContent)]
  /\ UNCHANGED <<conversationHistory, streamingEnabled, sending, fetched, clientFrame>>

\* one turn of while (true): reader.read() resolves with a chunk;
\* buffer += decoder.decode(value); lines = buffer.split('\n');
\* buffer = lines.pop() || ''; then the loop over the lines, with its
\* updateMessage calls
ReadChunk ==
  /\ reader.at = "reading"
  /\ reader.rest # <<>>
  /\ \E n \in 1..Len(reader.rest) :
       LET buffer == reader.buffer \o SubSeq(reader.rest, 1, n)
           lines == Split(buffer)
           r == HandleLines(reader, SubSeq(lines, 1, Len(lines) - 1))
       IN  /\ reader' = [r EXCEPT !.rest = SubSeq(reader.rest, n + 1, Len(reader.rest)),
                                  !.buffer = lines[Len(lines)],
                                  !.split = @ \/ StartsWithData(lines[Len(lines)])]
           /\ page' = [page EXCEPT !.shown = Str(r.c.accumulatedContent)]
  /\ UNCHANGED <<conversationHistory, streamingEnabled, sending, fetched, clientFrame>>

\* reader.read() resolves with done: the loop is left, the placeholder of the
\* history gets accumulatedContent || '(Used tool to get information)', and
\* the finally block enables the controls
ReadDone ==
  /\ reader.at = "reading"
  /\ reader.rest = <<>>
  /\ LET accumulatedContent == Str(reader.c.accumulatedContent)
     IN  conversationHistory' =
           [conversationHistory EXCEPT ![Len(conversationHistory)].content =
              IF accumulatedContent # "" THEN accumulatedContent ELSE UsedToolNotice]
  /\ reader' = [reader EXCEPT !.at = "finished"]
  /\ page' = [Disabled(page, FALSE) EXCEPT !.lines = reader.out, !.inFlight = @ - 1]
  /\ sending' = "idle"
  /\ UNCHANGED <<streamingEnabled, fetched, clientFrame>>

\* reader.read() rejects (the connection broke): the catch block and the
\* finally block of sendMessageWithStreaming
ReadThrows ==
  /\ reader.at = "reading"
  /\ conversationHistory' =
       [conversationHistory EXCEPT ![Len(conversationHistory)].content = SorryNotice]
  /\ reader' = [reader EXCEPT !.at = "failed"]
  /\ page' = [Disabled(page, FALSE) EXCEPT !.shown = SorryNotice, !.inFlight = @ - 1]
  /\ sending' = "idle"
  /\ UNCHANGED <<streamingEnabled, fetched, clientFrame>>

NextReader ==
  \/ ReadChunk
  \/ ReadDone
  \/ ReadThrows

\* a streaming send of the freshly loaded page whose fetch has resolved with
\* one of the server's outputs as its body
InitReader ==
  /\ pc = "reader"
  /\ stream = FALSE
  /\ messages \in Conversations
  /\ fullContent = <<>>
  /\ toolUseBlocks = <<>>
  /\ currentToolUse = <<>>
  /\ currentTextBlock = <<>>
  /\ toolResults = <<>>
  /\ toolIdx = 1
  /\ written = <<>>
  /\ ended = 0
  /\ replied = <<>>
  /\ requests = <<>>
  /\ executed = <<>>
  /\ received = <<>>
  /\ received2 = <<>>
  /\ phase1 = "idle"
  /\ phase2 = "idle"
  /\ nextId = 1
  /\ response = <<>>
  /\ apiKey = TRUE
  /\ connected = TRUE
  /\ body = Body(messages, stream)
  /\ parked = <<>>
  /\ openaiClient = FALSE
  /\ pineconeClient = FALSE
  /\ ragLog = <<>>
  /\ batch = BatchCall(<<>>, 1, "none")
  /\ staffDirectory = LoadedDirectory
  /\ toolTable = tools
  /\ toolLog = <<>>
  /\ streamingEnabled = TRUE
  /\ sending = "streaming"
  /\ conversationHistory = SentHistory
  /\ fetched = <<[messages |-> SentHistory, stream |-> TRUE]>>
  /\ page = [sendButtonDisabled |-> TRUE, userInputDisabled |-> TRUE,
             shown |-> "", lines |-> <<>>, inFlight |-> 1]
  /\ \E out \in ServerOutputs : reader = ReaderStart(out)

SpecReader == InitReader /\ [][NextReader]_vars

\* ============================================================ properties
\* What the collaborator sent, read off the event trace alone.

IsToolStart(e) ==
  e.type = "content_block_start" /\ e.content_block.type = "tool_use"
IsJsonDelta(e) ==
  e.type = "content_block_delta" /\ e.delta.type = "input_json_delta"
IsTextDelta(e) ==
  e.type = "content_block_delta" /\ e.delta.type = "text_delta"

\* the position of the content_block_stop that closes the block opened at i
\* (0 when the block is still open)
StopOf(events, i) ==
  LET stops == {j \in (i+1)..Len(events) : events[j].type = "content_block_stop"}
  IN  IF stops = {} THEN 0 ELSE CHOOSE j \in stops : \A k \in stops : j <= k

\* the argument fragments at positions from..to, concatenated in arrival order
RECURSIVE Fragments(_, _, _)
Fragments(events, from, to) ==
  IF from > to THEN <<>>
  ELSE (IF IsJsonDelta(events[from]) THEN events[from].delta.partial_json ELSE <<>>)
       \o Fragments(events, from + 1, to)

\* the closed tool-invocation blocks from position i on, in arrival order
RECURSIVE ClosedToolsFrom(_, _)
ClosedToolsFrom(events, i) ==
  IF i > Len(events) THEN <<>>
  ELSE (IF IsToolStart(events[i]) /\ StopOf(events, i) # 0
        THEN <<[id |-> events[i].content_block.id,
                name |-> events[i].content_block.name,
                buffer |-> Fragments(events, i + 1, StopOf(events, i) - 1)]>>
        ELSE <<>>)
       \o ClosedToolsFrom(events, i + 1)

ClosedTools(events) == ClosedToolsFrom(events, 1)

\* those of them whose buffer is valid JSON, as the calls they should lead to
RECURSIVE ValidCalls(_)
ValidCalls(blocks) ==
  IF blocks = <<>> THEN <<>>
  ELSE (IF JSONParse(Head(blocks).buffer).ok
        THEN <<[id |-> Head(blocks).id, name |-> Head(blocks).name,
                input |-> JSONParse(Head(blocks).buffer).value]>>
        ELSE <<>>)
       \o ValidCalls(Tail(blocks))

InvalidIds(blocks) ==
  {blocks[i].id : i \in {j \in 1..Len(blocks) : ~JSONParse(blocks[j].buffer).ok}}

Ids(list) == [i \in 1..Len(list) |-> list[i].id]
ResultIds(results) == [i \in 1..Len(results) |-> results[i].tool_use_id]
Last(seq) == seq[Len(seq)]

\* the first-pass stream has delivered message_stop and the tool loop is over
FirstPassCompleted == stream /\ phase1 = "stopped" /\ pc # "exec"

\* C1: once a first-pass stream has ended with its message_stop, executeTool
\* has been called exactly once for each tool-invocation block whose
\* accumulated buffer is valid JSON, in arrival order, with the block's name
\* and the parsed object.
C1_ExecutedOncePerValidBlock ==
  FirstPassCompleted => executed = ValidCalls(ClosedTools(received))

\* a completed first pass with a valid and an unparsable invocation
C1_Witness ==
  /\ FirstPassCompleted
  /\ Len(executed) >= 1
  /\ InvalidIds(ClosedTools(received)) # {}
  /\ \E i \in 1..Len(executed) : executed[i].input # JObject({})

\* C2: a tool-invocation block that closes with an unparsable buffer is
\* dropped: it never becomes pending, is never executed and gets no Tool
\* Result; closing it writes nothing but the relayed event (no error event)
\* and leaves the handler in the first-pass loop; the invocations that did
\* parse get their Tool Results, and a request that completes ends with [DONE].
C2_MalformedInvocationDropped ==
  stream =>
    LET blocks == ClosedTools(received)
        bad == InvalidIds(blocks)
    IN  /\ \A i \in 1..Len(toolUseBlocks) : toolUseBlocks[i].id \notin bad
        /\ \A i \in 1..Len(executed) : executed[i].id \notin bad
        /\ \A i \in 1..Len(toolResults) : toolResults[i].tool_use_id \notin bad
        /\ ( /\ received # <<>>
             /\ Last(received).type = "content_block_stop"
             /\ blocks # <<>>
             /\ Last(blocks).id \in bad
             /\ pc \notin {"errored", "done"} )
           => (pc = "first" /\ written = received /\ ended = 0)
        /\ FirstPassCompleted => ResultIds(toolResults) = Ids(ValidCalls(blocks))
        /\ pc = "done" => (Last(written) = Done /\ ended = 1)

\* two invocations, the second malformed: one Tool Result, for the first, and
\* the request has ended with [DONE]
C2_Witness ==
  /\ stream /\ pc = "done"
  /\ Len(ClosedTools(received)) = 2
  /\ InvalidIds(ClosedTools(received)) = {ClosedTools(received)[2].id}
  /\ ResultIds(toolResults) = <<ClosedTools(received)[1].id>>
  /\ Last(written) = Done

\* the tool loop of the request is over (either path)
ToolsExecuted ==
  /\ Len(toolUseBlocks) > 0
  /\ \/ FirstPassCompleted
     \/ ~stream /\ pc \in {"awaitFinal", "done", "errored"} /\ response # <<>>
        /\ response[1].stop_reason = "tool_use"

\* C3: every invocation pending at message-completed is executed and yields
\* exactly one Tool Result, in arrival order, whether or not an earlier one
\* threw; the loop never leaves the request in its error state and is always
\* followed by the follow-up request carrying the results.
C3_AllPendingExecuted ==
  /\ pc \in {"exec", "execNS"} =>
       /\ Len(toolResults) = toolIdx - 1
       /\ toolIdx <= Len(toolUseBlocks)
  /\ Len(toolResults) <= Len(toolUseBlocks)
  /\ \A i \in 1..Len(toolResults) : toolResults[i].tool_use_id = toolUseBlocks[i].id
  /\ Ids(executed) = ResultIds(toolResults)
  /\ ToolsExecuted =>
       /\ Len(toolResults) = Len(toolUseBlocks)
       /\ Len(requests) = 2
       /\ Last(requests[2]).content = toolResults
  /\ (stream /\ phase1 = "stopped" /\ Len(toolUseBlocks) > 0 /\ pc = "errored")
       => Len(requests) = 2

\* two pending invocations, the first of which threw, and the follow-up request
C3_Witness ==
  /\ stream
  /\ ToolsExecuted
  /\ Len(toolResults) = 2
  /\ toolResults[1].is_error
  /\ ~toolResults[2].is_error
  /\ Len(requests) = 2

\* the same on the non-streaming path
C3_WitnessNS ==
  /\ ~stream
  /\ ToolsExecuted
  /\ Len(toolResults) = 2
  /\ toolResults[1].is_error
  /\ Len(requests) = 2

\* the execution of a registered tool failed for an underlying reason: a
\* required search_term is missing, or the calculator was given an unknown
\* operation or an invalid operator
UnderlyingFailure(name, input) ==
  /\ input.t = "object"
  /\ \/ /\ name = "lookup_staff_directory"
        /\ Get(input, "query_type") \in {"by_name", "by_department", "by_role"}
        /\ Get(input, "search_term") = Undefined
     \/ /\ name = "company_calculator"
        /\ \/ Get(input, "operation") \notin
                {"basic_math", "percentage", "budget_analysis", "roi_calculation",
                 "salary_calculation", "compound_interest", "break_even"}
           \/ /\ Get(input, "operation") = "basic_math"
              /\ Get(input, "values") = VBadOp

\* C4: the Tool Result of an invocation whose tool failed for an underlying
\* reason carries is_error = true.
C4_FailureFlagged ==
  \A i \in 1..Len(toolResults) :
    UnderlyingFailure(toolUseBlocks[i].name, toolUseBlocks[i].input)
      => toolResults[i].is_error

\* the follow-up request has been issued
FollowUpIssued == Len(requests) >= 2

\* the turns the follow-up request adds to the conversation of the request
NewTurns == SubSeq(requests[2], Len(messages) + 1, Len(requests[2]))

\* C5: the conversation of the follow-up request is the request's messages,
\* then one assistant turn with a non-empty content list, then one user turn
\* whose content is the Tool Results in invocation order, and nothing else.
C5_FollowUpConversation ==
  FollowUpIssued =>
    /\ Len(requests[2]) = Len(messages) + 2
    /\ SubSeq(requests[2], 1, Len(messages)) = messages
    /\ NewTurns[1].role = "assistant"
    /\ Len(NewTurns[1].content) > 0
    /\ NewTurns[2].role = "user"
    /\ NewTurns[2].content = toolResults
    /\ ResultIds(NewTurns[2].content) = Ids(executed)
    /\ Len(executed) > 0

\* a streamed follow-up conversation carrying two Tool Results
C5_Witness ==
  /\ stream
  /\ FollowUpIssued
  /\ Len(NewTurns[2].content) = 2

\* the first pass delivered no text
NoTextReceived == \A i \in 1..Len(received) : ~IsTextDelta(received[i])

\* C6: when the first pass produced no text, the assistant turn of the
\* follow-up conversation carries an empty-text placeholder block besides
\* the tool-invocation blocks.
C6_EmptyTextPlaceholder ==
  (stream /\ FollowUpIssued /\ NoTextReceived) =>
    \E i \in 1..Len(NewTurns[1].content) :
      /\ NewTurns[1].content[i].type = "text"
      /\ NewTurns[1].content[i].text = <<>>

\* the text of the block opened at position i, as received
RECURSIVE TextOf(_, _, _)
TextOf(events, from, to) ==
  IF from > to THEN <<>>
  ELSE (IF IsTextDelta(events[from]) THEN events[from].delta.text ELSE <<>>)
       \o TextOf(events, from + 1, to)

\* C7: the blocks of the follow-up assistant turn keep the relative order in
\* which they arrived: a text block that arrived (with visible text) after a
\* tool-invocation block stands after that block in the assistant turn.
C7_OrderPreserved ==
  (stream /\ FollowUpIssued) =>
    \A i \in 1..Len(received) : \A j \in (i+1)..Len(received) :
      ( /\ IsToolStart(received[i])
        /\ received[j] = BlockStartText
        /\ StopOf(received, j) # 0
        /\ Trim(TextOf(received, j, StopOf(received, j))) # <<>>
        /\ \E b \in 1..Len(NewTurns[1].content) :
             /\ NewTurns[1].content[b].type = "tool_use"
             /\ NewTurns[1].content[b].id = received[i].content_block.id )
      => \E b \in 1..Len(NewTurns[1].content) : \E t \in (b+1)..Len(NewTurns[1].content) :
           /\ NewTurns[1].content[b].type = "tool_use"
           /\ NewTurns[1].content[b].id = received[i].content_block.id
           /\ NewTurns[1].content[t].type = "text"

\* C8: every event of the first-pass stream is written to the client as its
\* own data line as it is received: the writes start with exactly the events
\* received so far, in order, and until the first pass is over they are
\* nothing but those.
C8_RelayedAsReceived ==
  stream =>
    /\ Len(written) >= Len(received)
    /\ SubSeq(written, 1, Len(received)) = received
    /\ (pc = "first" /\ phase1 # "stopped") => written = received

\* a first pass in progress that has relayed argument fragments and text
C8_Witness ==
  /\ stream /\ pc = "first" /\ phase1 # "stopped"
  /\ \E i \in 1..Len(received) : IsJsonDelta(received[i])
  /\ \E i \in 1..Len(received) : IsTextDelta(received[i])
  /\ written = received

\* C9: per streaming request the collaborator is invoked at most twice and
\* tools run in at most one round: every call is for an invocation of the
\* first pass, at most once each, and none for a block of the follow-up stream.
C9_OneRound ==
  stream =>
    /\ Len(requests) <= 2
    /\ Len(executed) <= Len(ClosedTools(received))
    /\ \A i \in 1..Len(executed) :
         /\ \E k \in 1..Len(received) :
              IsToolStart(received[k]) /\ received[k].content_block.id = executed[i].id
         /\ \A k \in 1..Len(received2) :
              IsToolStart(received2[k]) => received2[k].content_block.id # executed[i].id
         /\ \A j \in 1..Len(executed) : executed[j].id = executed[i].id => j = i

\* a finished request whose follow-up stream carried a parsable tool invocation
C9_Witness ==
  /\ stream /\ pc = "done"
  /\ ValidCalls(ClosedTools(received2)) # <<>>
  /\ Len(requests) = 2

\* the writes of the catch block (an error event the stream itself carried
\* is a relayed event, not one of them)
ErrorWrites ==
  {i \in 1..Len(written) : written[i].type = "error" /\ written[i] # StreamError}

\* C10: when the collaborator throws during a streaming request, the error
\* event is the last write and the only error event, the stream is closed
\* once, [DONE] is not written, and what was relayed before stays written.
C10_ErrorIsTerminal ==
  (stream /\ pc = "errored" /\ requests # <<>>) =>
    /\ written # <<>>
    /\ ErrorWrites = {Len(written)}
    /\ Last(written) = ErrorEvent(CollaboratorFailure)
    /\ ended = 1
    /\ \A i \in 1..Len(written) : written[i] # Done
    /\ SubSeq(written, 1, Len(received)) = received
    /\ Len(written) >= Len(received) + Len(received2) + 1
    /\ SubSeq(written, Len(written) - Len(received2), Len(written) - 1) = received2

\* a throw inside the follow-up stream, after events of both streams were relayed
C10_Witness ==
  /\ stream /\ pc = "errored"
  /\ received2 # <<>>
  /\ Len(requests) = 2

\* a stream of the request has delivered an event of type error
ErrorDelivered == phase1 = "failed" \/ phase2 = "failed"

\* C11: once a stream has delivered an event of type error the request is in
\* its error state: the relayed error event is the last write, the response
\* is closed, [DONE] is not written, and no tool runs and no follow-up
\* request is issued after it.
C11_StreamErrorIsTerminal ==
  (stream /\ ErrorDelivered) =>
    /\ pc = "errored"
    /\ ended = 1
    /\ Last(written) = StreamError
    /\ \A i \in 1..Len(written) : written[i] # Done
    /\ phase1 = "failed" => (executed = <<>> /\ Len(requests) = 1)

\* the positions of the writes a client reads as the end of the response
TerminalMarkers ==
  {i \in 1..Len(written) : written[i] = Done \/ written[i].type = "error"}

\* C12: a streaming response that is over carries exactly one terminal
\* marker, [DONE] or an error event and never both, as its last write, and
\* the response is closed exactly once, when the request is over.
C12_OneTerminalMarker ==
  stream =>
    /\ ended <= 1
    /\ ended = 1 <=> pc \in {"done", "errored"}
    /\ pc \in {"done", "errored"} => TerminalMarkers = {Len(written)}

\* the content of the message a stream carried: its closed blocks, in order
RECURSIVE ContentFrom(_, _)
ContentFrom(events, i) ==
  IF i > Len(events) THEN <<>>
  ELSE (IF events[i].type = "content_block_start" /\ StopOf(events, i) # 0
        THEN IF IsToolStart(events[i])
             THEN <<ToolUseBlock(events[i].content_block.id,
                                 events[i].content_block.name,
                                 JSONParse(Fragments(events, i + 1,
                                                     StopOf(events, i) - 1)).value)>>
             ELSE <<TextBlock(TextOf(events, i, StopOf(events, i)))>>
        ELSE <<>>)
       \o ContentFrom(events, i + 1)

\* what the non-streaming branch answers when the collaborator returns the
\* two messages whole
NonStreamingAnswer(first, final) ==
  IF HasToolUse(first) THEN ResponseText(final) ELSE ResponseText(first)

\* a streaming request that ended with [DONE] after whole messages: every
\* block closed, every tool input parsable, the first pass with message_stop
WholeMessages ==
  /\ stream /\ pc = "done"
  /\ phase1 = "stopped"
  /\ phase2 \in {"idle", "stopped"}
  /\ InvalidIds(ClosedTools(received)) = {}

\* C13: for the same collaborator output the text the client has accumulated
\* at the end of a streaming response equals the response string of the
\* non-streaming branch, also when the first pass carries text besides its
\* tool invocations.
C13_SameFinalText ==
  WholeMessages =>
    ClientAfter(ClientStart, written).accumulatedContent
      = NonStreamingAnswer(ContentFrom(received, 1), ContentFrom(received2, 1))

\* the tool_use blocks of a content list, in order, as the calls they ask for
CallsOf(content) ==
  LET blocks == SelectSeq(content, LAMBDA b : b.type = "tool_use")
  IN  [i \in 1..Len(blocks) |->
         [id |-> blocks[i].id, name |-> blocks[i].name, input |-> blocks[i].input]]

\* C14: on the non-streaming path a response with stop_reason tool_use has
\* each of its tool_use blocks executed exactly once, in content order, and
\* then exactly one follow-up request whose new turns are the assistant turn
\* with the response content as received and the user turn with the Tool
\* Results; the answer is the concatenated text of the follow-up response.
\* With any other stop_reason no tool runs, no follow-up request is issued
\* and the answer is the concatenated text of the first response.
C14_NonStreamingRound ==
  (~stream /\ response # <<>>) =>
    IF response[1].stop_reason = "tool_use"
    THEN /\ pc = "execNS" =>
              /\ requests = <<messages>>
              /\ executed = SubSeq(CallsOf(response[1].content), 1, toolIdx - 1)
         /\ pc # "execNS" =>
              /\ executed = CallsOf(response[1].content)
              /\ ResultIds(toolResults) = Ids(executed)
              /\ Len(requests) = 2
              /\ requests[1] = messages
              /\ SubSeq(requests[2], 1, Len(messages)) = messages
              /\ NewTurns = <<[role |-> "assistant", content |-> response[1].content],
                              [role |-> "user", content |-> toolResults]>>
         /\ pc = "done" =>
              /\ Len(response) = 2
              /\ replied = <<[status |-> 200,
                              body |-> [response |-> ResponseText(response[2].content)]]>>
    ELSE /\ executed = <<>>
         /\ requests = <<messages>>
         /\ pc = "done"
         /\ replied = <<[status |-> 200,
                         body |-> [response |-> ResponseText(response[1].content)]]>>

\* an answered request whose first response held text and two tool_use
\* blocks, and whose follow-up response held text
C14_Witness ==
  /\ ~stream /\ pc = "done" /\ Len(response) = 2
  /\ Len(executed) = 2
  /\ replied[1].body.response # <<>>

\* an answered request whose first response held a tool_use block but
\* stopped for another reason
C14_WitnessNoToolUse ==
  /\ ~stream /\ pc = "done"
  /\ response[1].stop_reason = "max_tokens"
  /\ HasToolUse(response[1].content)
  /\ executed = <<>>

\* C15: once the client has disconnected from a streaming response the
\* handler consumes no further event of a collaborator stream, runs no
\* further tool and issues no further request to the collaborator.
C15_AbandonedOnDisconnect ==
  [][(stream /\ ~connected) =>
       /\ received' = received
       /\ received2' = received2
       /\ executed' = executed
       /\ requests' = requests]_vars

\* everything the handler invocation q holds or has sent is what its own
\* request and its own streams determine
OwnStateOnly(q) ==
  LET calls == ValidCalls(ClosedTools(q.received))
  IN  /\ q.toolUseBlocks = calls
      /\ q.currentToolUse # <<>> =>
           \E k \in 1..Len(q.received) :
             /\ IsToolStart(q.received[k])
             /\ q.received[k].content_block.id = q.currentToolUse[1].id
             /\ q.currentToolUse[1].input
                  = Fragments(q.received, k + 1, Len(q.received))
      /\ Join(q.fullContent) \o q.currentTextBlock
           = TextOf(q.received, 1, Len(q.received))
      /\ q.executed = SubSeq(calls, 1, Len(q.executed))
      /\ Len(q.toolResults) <= Len(calls)
      /\ \A i \in 1..Len(q.toolResults) : q.toolResults[i] = ToolResult(calls[i])
      /\ SubSeq(q.written, 1, Len(q.received)) = q.received
      /\ Len(q.requests) >= 1 => q.requests[1] = q.messages
      /\ Len(q.requests) >= 2 =>
           /\ q.executed = calls
           /\ q.requests[2]
                = UpdatedMessages(q.messages,
                                  AssistantContent(q.fullContent, calls),
                                  q.toolResults)
           /\ q.written[Len(q.received) + 1] = ToolExecution(q.toolResults)
           /\ q.pc \in {"follow", "first", "done"} =>
                SubSeq(q.written, Len(q.received) + 3,
                       Len(q.received) + 2 + Len(q.received2)) = q.received2

\* C16: of two requests in flight at once neither observes the other's
\* buffers, pending invocations, Tool Results or follow-up conversation: each
\* invocation's state, calls, writes and follow-up request are those its own
\* conversation and its own streams determine.
C16_RequestsIsolated ==
  parked # <<>> => (OwnStateOnly(Running) /\ OwnStateOnly(parked[1]))

\* both requests have consumed events: one has issued its follow-up request
\* with a Tool Result while the other holds an open invocation of its own
C16_Witness ==
  /\ parked # <<>>
  /\ Len(requests) = 2
  /\ Len(toolResults) = 1
  /\ parked[1].pc = "first"
  /\ parked[1].currentToolUse # <<>>
  /\ parked[1].currentToolUse[1].id # toolResults[1].tool_use_id
  /\ parked[1].toolUseBlocks = <<>>

\* C17: an invocation of a name that is not registered yields, for that
\* invocation only, a Tool Result with is_error = true and the Unknown-tool
\* message; the invocations of registered tools around it get their results
\* without the flag, and the request goes on to its follow-up request, which
\* carries all of them.
C17_UnknownToolIsError ==
  /\ \A n \in ToolNames \ tools : \A i \in Inputs(n) \cup {JNull} :
       executeTool(n, i) = Threw("Unknown tool: " \o n)
  /\ \A i \in 1..Len(toolResults) :
       IF toolUseBlocks[i].name \notin tools
       THEN toolResults[i] =
              [type |-> "tool_result", tool_use_id |-> toolUseBlocks[i].id,
               content |-> "Error executing tool: Unknown tool: "
                             \o toolUseBlocks[i].name,
               is_error |-> TRUE]
       ELSE toolUseBlocks[i].input # JNull => ~toolResults[i].is_error
  /\ ToolsExecuted =>
       /\ Len(toolResults) = Len(toolUseBlocks)
       /\ FollowUpIssued
       /\ NewTurns[2] = [role |-> "user", content |-> toolResults]
       /\ stream => pc \in {"awaitFollow", "follow", "first", "done", "errored"}

\* a request answered after its follow-up, whose first pass asked for an
\* unregistered tool and then for a registered one
C17_Witness ==
  /\ pc = "done"
  /\ Len(toolResults) = 2
  /\ toolUseBlocks[1].name \notin tools
  /\ toolResults[1].is_error
  /\ toolUseBlocks[2].name \in tools
  /\ ~toolResults[2].is_error
  /\ Len(requests) = 2

\* C18: the registry advertises the retrieval tool query_rag_system and
\* dispatches it: an invocation of it with a query and an index name gets a
\* result that is not an error (a JSON text with query, matches_found and
\* results).
C18_RetrievalToolDispatched ==
  \A i \in 1..Len(toolResults) :
    ( /\ toolUseBlocks[i].name = "query_rag_system"
      /\ Get(toolUseBlocks[i].input, "query") # Undefined
      /\ Get(toolUseBlocks[i].input, "index_name") # Undefined )
    => /\ toolUseBlocks[i].name \in tools
       /\ ~toolResults[i].is_error

\* the operations that need the embeddings service / the vector store
NeedOpenAI == {"generateEmbeddings"}
NeedPinecone ==
  {"saveToPinecone", "createPineconeIndex", "deletePineconeIndex",
   "listPineconeIndexes", "getIndexStats", "updateDocumentMetadata",
   "deleteDocuments"}

\* C19: without a credential the process is up all the same, and every
\* operation that needs the collaborator of that credential ends at once
\* with the error that names it, having sent no request to the service: a
\* chat request without ANTHROPIC_API_KEY is answered with 'ANTHROPIC_API_KEY
\* is not configured' and no create call; an operation of the RAG module
\* whose client is undefined throws '<OpenAI|Pinecone> client not initialized'.
C19_MissingCredentialFailsFast ==
  /\ (pc \notin {"start", "script"} /\ ~apiKey) =>
       /\ pc = "errored"
       /\ requests = <<>>
       /\ executed = <<>>
       /\ stream => (written = <<ErrorEvent(KeyNotConfigured)>> /\ ended = 1)
       /\ ~stream =>
            replied = <<[status |-> 500,
                         body |-> [error |-> "Error processing your request",
                                   details |-> KeyNotConfigured]]>>
  /\ \A i \in 1..Len(ragLog) :
       /\ (ragLog[i].op \in NeedOpenAI /\ ~openaiClient) =>
            /\ ragLog[i].calls = <<>>
            /\ ragLog[i].result = Threw("OpenAI client not initialized")
       /\ (ragLog[i].op \in NeedPinecone /\ ~pineconeClient) =>
            /\ ragLog[i].calls = <<>>
            /\ ragLog[i].result = Threw("Pinecone client not initialized")

\* a script without the OpenAI key and with the Pinecone key: an embedding
\* was refused, then a vector-store operation went through to its service
C19_Witness ==
  /\ pc = "script"
  /\ ~openaiClient /\ pineconeClient
  /\ Len(ragLog) = 2
  /\ ragLog[1].op = "generateEmbeddings" /\ ragLog[1].result.threw
  /\ ragLog[2].op \in NeedPinecone /\ ragLog[2].calls # <<>>

\* a streaming chat request refused for the missing key
C19_WitnessServer ==
  /\ stream /\ ~apiKey /\ pc = "errored"
  /\ written = <<ErrorEvent(KeyNotConfigured)>>

\* a tool threw while the tools of the request were handled
ToolThrew == \E i \in 1..Len(toolResults) : toolResults[i].is_error

\* the one answer of the request is the JSON error object with status 500
AnsweredWithError ==
  /\ Len(replied) = 1
  /\ replied[1].status = 500
  /\ DOMAIN replied[1].body = {"error", "details"}

\* C20 (as stated): whatever throws on the non-streaming path, be it the
\* first request, the handling of a tool or the follow-up request, the
\* request that is over has exactly one answer, the JSON error object with
\* status 500, and none with a response field.
C20_AnyThrowAnswers500 ==
  (~stream /\ pc \in {"done", "errored"} /\ (pc = "errored" \/ ToolThrew))
    => AnsweredWithError

\* C20 (amended): a throw that reaches the handler's catch block (a create
\* call that fails, first or follow-up, or the missing API key) gives exactly
\* one answer, the JSON error object with status 500 and the error's
\* message, and never one with a response field; a tool that throws is
\* caught in the tool loop and does not by itself lead to the error answer.
C20_UncaughtThrowAnswers500 ==
  ~stream =>
    /\ Len(replied) <= 1
    /\ pc = "errored" =>
         /\ AnsweredWithError
         /\ replied[1].body.error = "Error processing your request"
         /\ replied[1].body.details
              = (IF requests = <<>> THEN KeyNotConfigured ELSE CollaboratorFailure)
    /\ pc = "done" =>
         /\ Len(replied) = 1
         /\ replied[1].status = 200
         /\ DOMAIN replied[1].body = {"response"}
    /\ pc \in {"start", "awaitResponse", "execNS", "awaitFinal"} => replied = <<>>

\* the follow-up request failed after a tool had thrown and been recorded
C20_Witness ==
  /\ ~stream /\ pc = "errored"
  /\ Len(requests) = 2
  /\ ToolThrew
  /\ AnsweredWithError

\* ------------------------------------------------------------------------
\* C21: for the operation 'percentage' with a numeric amount and a numeric
\* percentage supplied, the payload's result.result is amount * percentage /
\* 100 rounded to two decimals, for every amount and percentage: r hundredths
\* is that number when it lies within half a hundredth of the exact value
C21_PercentageOfAmount ==
  \A i \in 1..Len(toolLog) :
    toolLog[i].name = "company_calculator" =>
      LET values == toolLog[i].input
          payload == toolLog[i].result.content
          exact == Num(values, "amount") * Num(values, "percentage")
      IN  /\ ~toolLog[i].result.threw
          /\ Has(payload, "result")
          /\ 2 * (Hundred * Num(payload, "result") - exact) <= Hundred
          /\ 2 * (exact - Hundred * Num(payload, "result")) < Hundred

\* ------------------------------------------------------------------------
\* C22: executeTool has no effect on shared state: no step changes the staff
\* directory or the tool table, and what every call so far returned or threw
\* is what the same name and input give now, whatever ran in between
C22_NoSharedStateEffect ==
  /\ [](\A i \in 1..Len(toolLog) :
         toolLog[i].result =
           IF toolLog[i].name = "company_calculator"
           THEN Returned(percentage(toolLog[i].input))
           ELSE executeTool(toolLog[i].name, toolLog[i].input))
  /\ [][staffDirectory' = staffDirectory /\ toolTable' = toolTable]_vars

\* two lookups have run on the loaded directory, a filtering one first, and
\* the second one lists a person the first one left out
C22_Witness ==
  /\ Len(toolLog) = 2
  /\ staffDirectory = LoadedDirectory
  /\ toolLog[1].name = "lookup_staff_directory"
  /\ Get(toolLog[1].input, "query_type") = "by_name"
  /\ toolLog[1].result = Returned(Stringify([staff |-> <<LoadedDirectory.staff[1]>>]))
  /\ toolLog[2].name = "lookup_staff_directory"
  /\ Get(toolLog[2].input, "query_type") = "all"
  /\ toolLog[2].result = Returned(Stringify(LoadedDirectory))

\* ------------------------------------------------------------------------
\* the characters of the text fragments among events, and the tokens of the
\* argument fragments among them
TextCharsOf(events) ==
  UNION {{e.delta.text[k] : k \in 1..Len(e.delta.text)} :
           e \in {events[i] : i \in {j \in 1..Len(events) : IsTextDelta(events[j])}}}
ArgumentTokensOf(events) ==
  UNION {{e.delta.partial_json[k] : k \in 1..Len(e.delta.partial_json)} :
           e \in {events[i] : i \in {j \in 1..Len(events) : IsJsonDelta(events[j])}}}

\* the text the client shows for the assistant after the lines written so far
Displayed == ClientAfter(ClientStart, written).accumulatedContent

\* C23: argument fragments never become user-visible text: whatever events
\* have been relayed, the text the client shows is made of characters of the
\* text fragments it was sent and holds no token of an argument fragment, and
\* the server's text buffers hold none either
C23_ArgumentsNeverShown ==
  LET shown == Displayed
      args == ArgumentTokensOf(received) \cup ArgumentTokensOf(received2)
      serverText == currentTextBlock \o Join(fullContent)
  IN  /\ \A i \in 1..Len(shown) :
           shown[i] \in TextCharsOf(written) /\ shown[i] \notin args
      /\ \A i \in 1..Len(serverText) : serverText[i] \notin args

\* an invocation's argument fragments have been relayed and the client shows
\* the text of the follow-up response
C23_Witness ==
  /\ \E i \in 1..Len(written) :
       written[i] # Done /\ IsJsonDelta(written[i]) /\ written[i].delta.partial_json # <<>>
  /\ executed # <<>>
  /\ Displayed # <<>>

\* ------------------------------------------------------------------------
\* the text of the text blocks of a content list, in order
TextCarried(content) ==
  Join([i \in 1..Len(content) |->
          IF content[i].type = "text" THEN content[i].text ELSE <<>>])

\* C24: when the first pass delivered text and tools are executed, the text
\* carried by the follow-up assistant turn is the concatenation, in arrival
\* order, of every text fragment of the first pass, leading and trailing
\* whitespace included
C24_FirstPassTextCarried ==
  (stream /\ FollowUpIssued /\ ~NoTextReceived) =>
    TextCarried(NewTurns[1].content) = TextOf(received, 1, Len(received))

\* ------------------------------------------------------------------------
\* the positions of the tool-invocation blocks opened in events
ToolStarts(events) == {k \in 1..Len(events) : IsToolStart(events[k])}

\* C25: the string that is parsed when a tool-invocation block closes is the
\* concatenation, in order, of exactly the argument fragments received since
\* that block was opened: the open invocation's buffer is that concatenation
\* at every moment, each pending invocation holds the parse of the fragments
\* of its own block, and the text buffers hold the text fragments only
C25_BufferIsOwnFragments ==
  stream =>
    /\ currentToolUse # <<>> =>
         /\ ToolStarts(received) # {}
         /\ LET k == CHOOSE j \in ToolStarts(received) :
                        \A l \in ToolStarts(received) : l <= j
            IN  /\ StopOf(received, k) = 0
                /\ currentToolUse[1].id = received[k].content_block.id
                /\ currentToolUse[1].input = Fragments(received, k + 1, Len(received))
    /\ \A i \in 1..Len(toolUseBlocks) :
         \E k \in ToolStarts(received) :
           /\ StopOf(received, k) # 0
           /\ received[k].content_block.id = toolUseBlocks[i].id
           /\ toolUseBlocks[i].input
                = JSONParse(Fragments(received, k + 1, StopOf(received, k) - 1)).value
    /\ Join(fullContent) \o (IF phase1 = "stopped" THEN <<>> ELSE currentTextBlock)
         = TextOf(received, 1, Len(received))

\* two invocations have closed, the first one built from two fragments, and
\* both are pending with arguments of their own
C25_Witness ==
  /\ stream
  /\ Len(toolUseBlocks) = 2
  /\ toolUseBlocks[1].input # toolUseBlocks[2].input
  /\ \E k \in ToolStarts(received) :
       /\ received[k].content_block.id = toolUseBlocks[1].id
       /\ IsJsonDelta(received[k + 1]) /\ IsJsonDelta(received[k + 2])
       /\ received[k + 1].delta.partial_json # <<>>
       /\ received[k + 2].delta.partial_json # <<>>

\* ------------------------------------------------------------------------
\* the first pass has delivered its message_stop
MessageStopSeen == \E i \in 1..Len(received) : received[i].type = "message_stop"

\* the tool_execution events written so far
ToolExecutionWrites ==
  SelectSeq(written, LAMBDA e : e.type = "tool_execution")

\* C26: tools are executed and a follow-up request is issued if and only if
\* message_stop is received while the pending list is not empty: anything of
\* a tool round (a call, a tool_execution event, a second request) implies
\* that; with a non-empty list the tool loop runs and ends in the follow-up
\* request; with an empty list there is no call, no tool_execution event and
\* no follow-up request, and the next step of the handler is the one to Done,
\* unless reading the stream throws
C26_ToolRoundIffPendingAtStop ==
  /\ [](stream =>
         /\ (executed # <<>> \/ FollowUpIssued \/ ToolExecutionWrites # <<>>)
              => (MessageStopSeen /\ toolUseBlocks # <<>>)
         /\ (MessageStopSeen /\ toolUseBlocks # <<>>) =>
              \/ pc = "exec" /\ Len(executed) < Len(toolUseBlocks)
              \/ /\ Len(executed) = Len(toolUseBlocks)
                 /\ FollowUpIssued
                 /\ Len(ToolExecutionWrites) = 1
         /\ (MessageStopSeen /\ toolUseBlocks = <<>>) =>
              /\ executed = <<>>
              /\ ToolExecutionWrites = <<>>
              /\ Len(requests) = 1
              /\ pc \in {"first", "done", "errored"})
  /\ [][(stream /\ MessageStopSeen /\ toolUseBlocks = <<>> /\ pc = "first") =>
          \/ pc' = "done" /\ written' = Append(written, Done) /\ ended' = 1
          \/ pc' = "errored" /\ written' = Append(written, ErrorEvent(CollaboratorFailure))]_vars

\* a first pass whose only invocation did not parse has ended with its
\* message_stop: the request is done without a tool round
C26_Witness ==
  /\ stream /\ pc = "done"
  /\ MessageStopSeen
  /\ toolUseBlocks = <<>>
  /\ ClosedTools(received) # <<>>
  /\ Last(written) = Done

\* a first pass with a pending invocation has ended with its message_stop:
\* the tool ran and the follow-up request was issued
C26_WitnessToolRound ==
  /\ stream /\ pc = "done"
  /\ MessageStopSeen
  /\ Len(toolUseBlocks) = 1 /\ Len(executed) = 1
  /\ FollowUpIssued

\* ------------------------------------------------------------------------
\* C27: when tools are executed, exactly one tool_execution event is written
\* per request: none while the tool loop runs, and after it one, which holds
\* the Tool Results of all pending invocations in order, comes right after
\* the relayed events of the first pass, the last of which is message_stop,
\* and before everything of the follow-up stream
C27_OneToolExecutionEvent ==
  (stream /\ executed # <<>>) =>
    IF pc = "exec"
    THEN /\ ToolExecutionWrites = <<>>
         /\ written = received
    ELSE LET at == Len(received) + 1
         IN  /\ Len(ToolExecutionWrites) = 1
             /\ SubSeq(written, 1, at - 1) = received
             /\ written[at - 1].type = "message_stop"
             /\ written[at] = ToolExecution(toolResults)
             /\ ResultIds(written[at].tool_results) = Ids(toolUseBlocks)
             /\ received2 # <<>> =>
                  /\ written[at + 1] = FollowupStart
                  /\ SubSeq(written, at + 2, at + 1 + Len(received2)) = received2

\* two pending invocations have been executed: the single tool_execution
\* event holds both results and the follow-up stream has been opened after it
C27_Witness ==
  /\ stream
  /\ Len(executed) = 2
  /\ Len(ToolExecutionWrites) = 1
  /\ Len(ToolExecutionWrites[1].tool_results) = 2
  /\ Last(written) = FollowupStart

\* one invocation has been executed and an event of the follow-up stream has
\* been relayed after the tool_execution event
C27_WitnessFollowUpEvent ==
  /\ stream
  /\ Len(ToolExecutionWrites) = 1
  /\ received2 # <<>>
  /\ Last(written) = Last(received2)

\* ------------------------------------------------------------------------
\* the request is in Done or Errored and its response is closed
Closed == pc \in {"done", "errored"} /\ ended = 1

\* C28: with finite streams and tools that return or throw, every streaming
\* request eventually reaches Done or Errored with its response closed, and
\* no step leads on from there
C28_StreamingRequestEnds ==
  /\ (stream /\ pc = "start") ~> Closed
  /\ [][(pc \in {"done", "errored"}) => (UNCHANGED vars)]_vars

\* a request that ran a tool and relayed an event of its follow-up stream has
\* reached Done
C28_Witness ==
  /\ stream /\ Closed /\ pc = "done"
  /\ executed # <<>>
  /\ received2 # <<>>
  /\ Last(written) = Done

\* a request whose first stream threw has reached Errored
C28_WitnessErrored ==
  /\ stream /\ Closed /\ pc = "errored"
  /\ received # <<>>
  /\ Last(written) = ErrorEvent(CollaboratorFailure)

\* ------------------------------------------------------------------------
\* C29: during a request the conversation is only appended to: the first
\* request carries the request's messages, the follow-up conversation has
\* them as its prefix, turn by turn, on the streaming and on the
\* non-streaming path, and no step changes the messages array
C29_ConversationAppendOnly ==
  /\ [](/\ Len(requests) >= 1 => requests[1] = messages
        /\ Len(requests) >= 2 =>
             /\ Len(requests[2]) > Len(messages)
             /\ \A i \in 1..Len(messages) : requests[2][i] = messages[i])
  /\ [][messages' = messages]_vars

\* a non-streaming request of several turns has issued its follow-up request
C29_Witness ==
  /\ ~stream
  /\ Len(messages) > 1
  /\ FollowUpIssued

\* a streaming request of several turns has issued its follow-up request
C29_WitnessStreaming ==
  /\ stream
  /\ Len(messages) > 1
  /\ FollowUpIssued

\* ------------------------------------------------------------------------
\* C30: after any sequence of sends from the browser client, streaming or
\* not, succeeding or failing, every turn of every conversation the client
\* sends to the server has role user or assistant
C30_SentRolesUserOrAssistant ==
  \A k \in 1..Len(fetched) : \A i \in 1..Len(fetched[k].messages) :
    fetched[k].messages[i].role \in {"user", "assistant"}

\* ------------------------------------------------------------------------
\* the concatenation of a list of lists
RECURSIVE Flatten(_)
Flatten(lists) == IF lists = <<>> THEN <<>> ELSE Head(lists) \o Flatten(Tail(lists))

\* the ids error_details names, in order
FailedIds == [j \in 1..Len(batch.errors) |-> batch.errors[j].document_id]

\* C31: batchProcessDocuments returns total = the number of input documents
\* and processed + errors = total; a document whose embedding fails is
\* counted in errors with its id in error_details, and the other documents,
\* of its batch and of later batches, are embedded and saved all the same
C31_BatchCountsAndContinues ==
  batch.at = "returned" =>
    LET failed == {FailedIds[j] : j \in 1..Len(FailedIds)}
    IN  /\ BatchResult.total = Len(batch.documents)
        /\ BatchResult.processed + BatchResult.errors = BatchResult.total
        /\ BatchResult.errors = Len(BatchResult.error_details)
        /\ batch.embedded = batch.documents
        /\ FailedIds = SelectSeq(batch.documents, LAMBDA d : d \in failed)
        /\ Flatten(batch.saved) = SelectSeq(batch.documents, LAMBDA d : d \notin failed)

\* three documents in batches of two: the embedding of the first one failed,
\* the second one was saved with its batch and the third one with the next
C31_Witness ==
  /\ batch.at = "returned"
  /\ batch.batchSize = 2
  /\ FailedIds = <<1>>
  /\ batch.saved = <<<<2>>, <<3>>>>

\* C38: batchProcessDocuments terminates for every document list and every
\* batchSize, and on the way it requests an embedding once for each document,
\* in input order, with no batch larger than batchSize
C38_BatchTerminates ==
  /\ <>(batch.at \in {"returned", "threw"})
  /\ [](/\ batch.embedded = SubSeq(batch.documents, 1, Len(batch.embedded))
        /\ Len(batch.cur) <= batch.batchSize
        /\ batch.at = "returned" => batch.embedded = batch.documents)

\* ------------------------------------------------------------------------
\* the tool-invocation blocks of the follow-up assistant turn
FollowUpInvocations ==
  SelectSeq(NewTurns[1].content, LAMBDA b : b.type = "tool_use")

\* C32: in the follow-up conversation the tool-invocation blocks of the
\* assistant turn and the Tool Results of the user turn correspond one to
\* one and in the same order: the i-th Tool Result references the id of the
\* i-th block, and there are as many of the ones as of the others
C32_ResultsMatchInvocations ==
  FollowUpIssued =>
    /\ Len(NewTurns[2].content) = Len(FollowUpInvocations)
    /\ \A i \in 1..Len(FollowUpInvocations) :
         /\ NewTurns[2].content[i].type = "tool_result"
         /\ NewTurns[2].content[i].tool_use_id = FollowUpInvocations[i].id
    /\ \A i, j \in 1..Len(FollowUpInvocations) :
         FollowUpInvocations[i].id = FollowUpInvocations[j].id => i = j

\* a streamed follow-up conversation with two tool-invocation blocks, the
\* second Tool Result referencing the second of them
C32_Witness ==
  /\ stream
  /\ FollowUpIssued
  /\ Len(FollowUpInvocations) = 2
  /\ NewTurns[2].content[2].tool_use_id = FollowUpInvocations[2].id

\* a non-streaming follow-up conversation with two tool-invocation blocks
C32_WitnessNS ==
  /\ ~stream
  /\ FollowUpIssued
  /\ Len(FollowUpInvocations) = 2

\* ------------------------------------------------------------------------
\* the ids of the closed tool-invocation blocks that got no argument fragment
EmptyBufferIds ==
  LET blocks == ClosedTools(received)
  IN  {blocks[i].id : i \in {j \in 1..Len(blocks) : blocks[j].buffer = <<>>}}

\* C33: a tool-invocation block that closes without any argument fragment
\* (its buffer is the empty string) is treated as unparsable: it is not
\* executed, gets no Tool Result and is absent from the follow-up assistant
\* turn
C33_EmptyBufferDropped ==
  stream =>
    /\ \A i \in 1..Len(toolUseBlocks) : toolUseBlocks[i].id \notin EmptyBufferIds
    /\ \A i \in 1..Len(executed) : executed[i].id \notin EmptyBufferIds
    /\ \A i \in 1..Len(toolResults) : toolResults[i].tool_use_id \notin EmptyBufferIds
    /\ FollowUpIssued =>
         \A i \in 1..Len(FollowUpInvocations) :
           FollowUpInvocations[i].id \notin EmptyBufferIds

\* a follow-up request was issued for one invocation while another block had
\* closed without a fragment
C33_Witness ==
  /\ stream
  /\ FollowUpIssued
  /\ EmptyBufferIds # {}
  /\ Len(FollowUpInvocations) = 1

\* ------------------------------------------------------------------------
\* the last streaming send has read a response that held an error event
ErrorEventRead ==
  \E i \in 1..Len(page.lines) : page.lines[i].type = "error"

\* C34: when the browser client receives an error event on the stream, the
\* assistant message on screen is replaced by the notice 'Sorry, there was an
\* error processing your request.' and the notice is recorded as the
\* assistant's content in the history
C34_ErrorEventShowsNotice ==
  (sending = "idle" /\ ErrorEventRead) =>
    /\ page.shown = SorryNotice
    /\ Last(conversationHistory) = [role |-> "assistant", content |-> SorryNotice]

\* C35: from the submission of a message until its response handling ends,
\* the input and the send button are disabled, so at most one request of a
\* client is in flight; when the handling has ended, on whichever path, both
\* are enabled again
C35_ControlsDisabledInFlight ==
  /\ sending # "idle" => (page.sendButtonDisabled /\ page.userInputDisabled)
  /\ sending = "idle" => (~page.sendButtonDisabled /\ ~page.userInputDisabled)
  /\ page.inFlight <= 1
  /\ page.inFlight = (IF sending = "idle" THEN 0 ELSE 1)

\* a second message is in flight after the first request failed
C35_Witness ==
  /\ sending = "streaming"
  /\ Len(fetched) = 2
  /\ \E i \in 1..Len(conversationHistory) : conversationHistory[i].content = SorryNotice

\* the controls are enabled again after a failed non-streaming request
C35_WitnessReenabled ==
  /\ sending = "idle"
  /\ ~page.sendButtonDisabled
  /\ Last(conversationHistory) = [role |-> "system", content |-> SorryNotice]

\* C36: the messages array the client sends for a new user message ends
\* with that user message, in both modes: no placeholder and no turn of
\* empty content is part of the request
C36_RequestEndsWithUserMessage ==
  \A k \in 1..Len(fetched) :
    /\ Last(fetched[k].messages).role = "user"
    /\ \A i \in 1..Len(fetched[k].messages) : fetched[k].messages[i].content # ""

\* ------------------------------------------------------------------------
\* the events of a server output: its data lines but the sentinel
EventsOf(out) == SelectSeq(out, LAMBDA line : line # Done)

\* C37: the client's handling of the response does not depend on how the
\* body is split into chunks, a data line split across two chunks included:
\* whatever the chunks, the events of the server's output are handled, in
\* their order, and the text shown and recorded at the end is the text of the
\* output read line by line
C37_ChunkingIrrelevant ==
  reader.at = "finished" =>
    LET whole == ClientAfter(ClientStart, reader.out)
    IN  /\ reader.handled = EventsOf(reader.out)
        /\ reader.c = whole
        /\ page.shown = Str(whole.accumulatedContent)
        /\ Last(conversationHistory).content =
             (IF whole.accumulatedContent # <<>> THEN Str(whole.accumulatedContent)
              ELSE UsedToolNotice)

\* the response of a tool round with a text answer was read to its end, and
\* a chunk had ended inside a data line
C37_Witness ==
  /\ reader.at = "finished"
  /\ reader.split
  /\ reader.c.hasSeenToolUse
  /\ page.shown = "a"

\* ------------------------------------------------------------------------
\* C39: if messages is missing or is not an array, the server answers HTTP
\* 400 with a JSON error and neither contacts the collaborator nor executes
\* a tool, whatever the value of stream
C39_InvalidMessagesRejected ==
  (~IsArray(body.messages) /\ pc # "received") =>
    /\ pc = "rejected"
    /\ replied = <<BadRequest>>
    /\ requests = <<>>
    /\ executed = <<>>
    /\ written = <<>>
    /\ ended = 0

\* a request with stream: true whose messages is a string was answered
C39_Witness ==
  /\ pc = "rejected"
  /\ body.messages = [t |-> "string", v |-> "hi"]
  /\ body.stream = JsBoolean(TRUE)
  /\ replied # <<>>

\* a request without messages and without stream was answered
C39_WitnessMissing ==
  /\ pc = "rejected"
  /\ body.messages = JsUndefined
  /\ body.stream = JsUndefined
====
